---- MODULE Spec2Model ----
(***************************************************************************)
(* The schema compiler, the three execution engines, the interpreted       *)
(* reference validator and the schema registry of crates/valrs-wasm.       *)
(*                                                                         *)
(* Conventions.                                                            *)
(*   - A Rust String is a sequence of chunks: a maximal run of ASCII       *)
(*     characters is one TLA+ string, a non-ASCII character is one chunk   *)
(*     holding its code point name ("U+00E9").                             *)
(*   - Option<T> is a sequence of length 0 (None) or 1 (Some).             *)
(*   - An f64 / serde_json number n is stored as the integer 2*n (x2), so  *)
(*     halves are exact; `float` tells N::Float from N::PosInt/NegInt.     *)
(*     The integers 2^53 + j are stored from X2_2POW53 on (x2 =            *)
(*     X2_2POW53 + 2*j), above every other number of the model: the order  *)
(*     of the numbers is kept, and there an f64 holds even integers only.  *)
(*   - A serde_json Map is the sequence of its (key, value) entries in     *)
(*     iteration order; keys are unique.                                   *)
(*   - The instruction pointer ip is 0-based as in the source.             *)
(***************************************************************************)
EXTENDS Integers, Sequences, FiniteSets, TLC

VARIABLES
    schema,      \* the schema document handed to compile_schema
    value,       \* the input value of the validation call
    compiled,    \* CompiledSchema.ops produced by compile_schema(schema)
    phase,       \* which engine of the call sequence is running
    diag,        \* execute_compiled: ip, context_stack, path_stack, issues
    fastb,       \* execute_compiled_bool: ip, context_stack, outcome
    fastjs,      \* execute_compiled_fast: ip, context_stack, value_stack, outcome
    interp,      \* result of validate_against_schema(value, schema)
    registry,    \* SchemaRegistry.schemas
    call,        \* the last registry call and what it returned
    registered,  \* history: per name, the document of its last successful
                 \* register call, None once unregister was called after it
    runs         \* the validation calls in progress over `compiled`, each
                 \* with its engine, its input value and its own locals

vars ==
    <<schema, value, compiled, phase, diag, fastb, fastjs, interp, registry, call,
      registered, runs>>

-----------------------------------------------------------------------------
(* Option<T> *)

None == <<>>
Some(v) == <<v>>
IsSome(o) == o # <<>>
Unwrap(o) == o[1]

-----------------------------------------------------------------------------
(* serde_json::Value *)

JNull == [k |-> "null"]
JBool(b) == [k |-> "bool", b |-> b]
JInt(n) == [k |-> "num", float |-> FALSE, x2 |-> 2 * n]
JFloat(halves) == [k |-> "num", float |-> TRUE, x2 |-> halves]
JStr(s) == [k |-> "str", s |-> s]
JArr(items) == [k |-> "arr", items |-> items]
JObj(entries) == [k |-> "obj", entries |-> entries]

is_string(v) == v.k = "str"
is_number(v) == v.k = "num"
is_boolean(v) == v.k = "bool"
is_null(v) == v.k = "null"
is_object(v) == v.k = "obj"
is_array(v) == v.k = "arr"
\* Value::is_i64() || Value::is_u64(): the number is stored as an integer
is_integer(v) == v.k = "num" /\ ~v.float

as_str(v) == IF v.k = "str" THEN Some(v.s) ELSE None
\* where the integers from 2^53 on are stored
X2_2POW53 == 1048576
JBigInt(j) == [k |-> "num", float |-> FALSE, x2 |-> X2_2POW53 + 2 * j]

\* `n as f64` for a stored i64/u64: exact below 2^53; from 2^53 on the nearest
\* even integer, a tie going to the one with the even mantissa
RoundToF64(x2) ==
    IF x2 < X2_2POW53 THEN x2
    ELSE LET j == (x2 - X2_2POW53) \div 2
         IN  CASE j % 4 = 1 -> x2 - 2
               [] j % 4 = 3 -> x2 + 2
               [] OTHER -> x2

\* Value::as_f64
as_f64(v) == IF v.k = "num" THEN Some(RoundToF64(v.x2)) ELSE None
\* Number::as_u64: Some only for a non-negative stored integer
as_u64(v) == IF v.k = "num" /\ ~v.float /\ v.x2 >= 0 THEN Some(v.x2 \div 2) ELSE None
as_array(v) == IF v.k = "arr" THEN Some(v.items) ELSE None
as_object(v) == IF v.k = "obj" THEN Some(v.entries) ELSE None

\* Map::get and Map::contains_key
MapGet(entries, key) ==
    LET hits == {i \in 1..Len(entries) : entries[i][1] = key}
    IN  IF hits = {} THEN None ELSE Some(entries[CHOOSE i \in hits : TRUE][2])
ContainsKey(entries, key) == \E i \in 1..Len(entries) : entries[i][1] = key

\* the non-ASCII characters and the number of bytes of their UTF-8 encoding
NonAscii == {"U+00E9", "U+65E5", "U+1F600"}
Utf8Width(c) ==
    CASE c = "U+00E9" -> 2
      [] c = "U+65E5" -> 3
      [] c = "U+1F600" -> 4

\* str::chars().count() and str::len() (the length in UTF-8 bytes)
RECURSIVE CharCount(_)
CharCount(s) ==
    IF s = <<>> THEN 0
    ELSE (IF Head(s) \in NonAscii THEN 1 ELSE Len(Head(s))) + CharCount(Tail(s))
RECURSIVE ByteLen(_)
ByteLen(s) ==
    IF s = <<>> THEN 0
    ELSE (IF Head(s) \in NonAscii THEN Utf8Width(Head(s)) ELSE Len(Head(s)))
         + ByteLen(Tail(s))

-----------------------------------------------------------------------------
(* The keywords and type names of the schema vocabulary *)

S_type == <<"type">>
S_minimum == <<"minimum">>
S_maximum == <<"maximum">>
S_exclusiveMinimum == <<"exclusiveMinimum">>
S_exclusiveMaximum == <<"exclusiveMaximum">>
S_minLength == <<"minLength">>
S_maxLength == <<"maxLength">>
S_properties == <<"properties">>
S_required == <<"required">>
S_minItems == <<"minItems">>
S_maxItems == <<"maxItems">>
S_items == <<"items">>

S_string == <<"string">>
S_number == <<"number">>
S_integer == <<"integer">>
S_boolean == <<"boolean">>
S_null == <<"null">>
S_object == <<"object">>
S_array == <<"array">>

TypeTag == {"String", "Number", "Integer", "Boolean", "Null", "Object", "Array"}

TypeTagName(tag) ==
    CASE tag = "String" -> S_string
      [] tag = "Number" -> S_number
      [] tag = "Integer" -> S_integer
      [] tag = "Boolean" -> S_boolean
      [] tag = "Null" -> S_null
      [] tag = "Object" -> S_object
      [] tag = "Array" -> S_array

\* an unknown name read as the string type
parse_type_tag_UnknownIsString(type_str) ==
    CASE type_str = S_number -> Some("Number")
      [] type_str = S_integer -> Some("Integer")
      [] type_str = S_boolean -> Some("Boolean")
      [] type_str = S_null -> Some("Null")
      [] type_str = S_object -> Some("Object")
      [] type_str = S_array -> Some("Array")
      [] OTHER -> Some("String")

parse_type_tag(type_str) ==
    CASE type_str = S_string -> Some("String")
      [] type_str = S_number -> Some("Number")
      [] type_str = S_integer -> Some("Integer")
      [] type_str = S_boolean -> Some("Boolean")
      [] type_str = S_null -> Some("Null")
      [] type_str = S_object -> Some("Object")
      [] type_str = S_array -> Some("Array")
      [] OTHER -> None

check_type_tag(v, expected) ==
    CASE expected = "String" -> is_string(v)
      [] expected = "Number" -> is_number(v)
      [] expected = "Integer" -> is_integer(v)
      [] expected = "Boolean" -> is_boolean(v)
      [] expected = "Null" -> is_null(v)
      [] expected = "Object" -> is_object(v)
      [] expected = "Array" -> is_array(v)

json_type_name(v) ==
    CASE v.k = "null" -> S_null
      [] v.k = "bool" -> S_boolean
      [] v.k = "num" -> IF ~v.float THEN S_integer ELSE S_number
      [] v.k = "str" -> S_string
      [] v.k = "arr" -> S_array
      [] v.k = "obj" -> S_object

-----------------------------------------------------------------------------
(* ValidationOp and compile_schema *)

CheckType(tag) == [op |-> "CheckType", tag |-> tag]
EnterObject == [op |-> "EnterObject"]
CheckProperty(key, required) == [op |-> "CheckProperty", key |-> key, required |-> required]
ExitObject == [op |-> "ExitObject"]
EnterArray == [op |-> "EnterArray"]
CheckArrayItems == [op |-> "CheckArrayItems"]
\* an array closed with the operation that closes an object
ExitArray_ClosesObject == [op |-> "ExitObject"]
ExitArray == [op |-> "ExitArray"]
CheckMinimum(n) == [op |-> "CheckMinimum", n |-> n]
CheckMaximum(n) == [op |-> "CheckMaximum", n |-> n]
CheckExclusiveMinimum(n) == [op |-> "CheckExclusiveMinimum", n |-> n]
CheckExclusiveMaximum(n) == [op |-> "CheckExclusiveMaximum", n |-> n]
CheckMinLength(n) == [op |-> "CheckMinLength", n |-> n]
CheckMaxLength(n) == [op |-> "CheckMaxLength", n |-> n]
CheckMinItems(n) == [op |-> "CheckMinItems", n |-> n]
CheckMaxItems(n) == [op |-> "CheckMaxItems", n |-> n]
Done == [op |-> "Done"]

\* `if let Some(Value::Number(n)) = schema_obj.get(key)` then n.as_f64()
F64Keyword(schema_obj, key, name) ==
    LET got == MapGet(schema_obj, key)
    IN  IF IsSome(got) /\ is_number(Unwrap(got)) /\ IsSome(as_f64(Unwrap(got)))
        THEN <<[op |-> name, n |-> Unwrap(as_f64(Unwrap(got)))]>>
        ELSE <<>>

\* `if let Some(Value::Number(n)) = schema_obj.get(key)` then n.as_u64()
U64Keyword(schema_obj, key, name) ==
    LET got == MapGet(schema_obj, key)
    IN  IF IsSome(got) /\ is_number(Unwrap(got)) /\ IsSome(as_u64(Unwrap(got)))
        THEN <<[op |-> name, n |-> Unwrap(as_u64(Unwrap(got)))]>>
        ELSE <<>>

\* a HashSet<&str> that stays empty
RequiredSet_Empty(schema_obj) == {}

\* the HashSet<&str> built from the node's "required" array
RequiredSet(schema_obj) ==
    LET got == MapGet(schema_obj, S_required)
    IN  IF IsSome(got) /\ is_array(Unwrap(got))
        THEN {Unwrap(got).items[i].s :
                 i \in {j \in 1..Len(Unwrap(got).items) : is_string(Unwrap(got).items[j])}}
        ELSE {}

RECURSIVE compile_schema_recursive(_)
RECURSIVE CompileProperties(_, _, _)
RECURSIVE CompileProperties_SubSchemaFirst(_, _, _)

\* the loop over `properties` with the two statements of its body exchanged
CompileProperties_SubSchemaFirst(properties, required, i) ==
    IF i > Len(properties) THEN <<>>
    ELSE compile_schema_recursive(properties[i][2])
         \o <<CheckProperty(properties[i][1], properties[i][1] \in required)>>
         \o CompileProperties_SubSchemaFirst(properties, required, i + 1)

\* the `for (key, prop_schema) in properties` loop, from entry i on
CompileProperties(properties, required, i) ==
    IF i > Len(properties) THEN <<>>
    ELSE <<CheckProperty(properties[i][1], properties[i][1] \in required)>>
         \o compile_schema_recursive(properties[i][2])
         \o CompileProperties(properties, required, i + 1)

compile_schema_recursive(node) ==
    IF ~is_object(node) THEN <<>>
    ELSE
    LET schema_obj == node.entries
        type_value == MapGet(schema_obj, S_type)
        type_ops ==
            IF IsSome(type_value) /\ is_string(Unwrap(type_value))
               /\ IsSome(parse_type_tag(Unwrap(type_value).s))
            THEN <<CheckType(Unwrap(parse_type_tag(Unwrap(type_value).s)))>>
            ELSE <<>>
        props == MapGet(schema_obj, S_properties)
        object_ops ==
            IF IsSome(props) /\ is_object(Unwrap(props))
            THEN <<EnterObject>>
                 \o CompileProperties(Unwrap(props).entries, RequiredSet(schema_obj), 1)
                 \o <<ExitObject>>
            ELSE <<>>
        items_schema == MapGet(schema_obj, S_items)
        items_ops ==
            IF IsSome(items_schema)
            THEN <<EnterArray, CheckArrayItems>>
                 \o compile_schema_recursive(Unwrap(items_schema))
                 \o <<ExitArray>>
            ELSE <<>>
    IN  type_ops
        \o F64Keyword(schema_obj, S_minimum, "CheckMinimum")
        \o F64Keyword(schema_obj, S_maximum, "CheckMaximum")
        \o F64Keyword(schema_obj, S_exclusiveMinimum, "CheckExclusiveMinimum")
        \o F64Keyword(schema_obj, S_exclusiveMaximum, "CheckExclusiveMaximum")
        \o U64Keyword(schema_obj, S_minLength, "CheckMinLength")
        \o U64Keyword(schema_obj, S_maxLength, "CheckMaxLength")
        \o object_ops
        \o U64Keyword(schema_obj, S_minItems, "CheckMinItems")
        \o U64Keyword(schema_obj, S_maxItems, "CheckMaxItems")
        \o items_ops

\* a compiler with state of its own: only the first call, the one of the
\* compile_schema phase, compiles the document
compile_schema_FirstCallOnly(doc) ==
    IF phase = "compile_schema" THEN compile_schema_recursive(doc) \o <<Done>> ELSE <<Done>>

\* Done pushed before the recursive compilation instead of after it
compile_schema_DoneFirst(doc) == <<Done>> \o compile_schema_recursive(doc)

compile_schema(doc) == compile_schema_recursive(doc) \o <<Done>>

-----------------------------------------------------------------------------
(* PathSegment, ValidationIssue, ValidationResult (crates/valrs/src/types.rs) *)

KeySegment(key) == [seg |-> "Key", key |-> key, index |-> 0]
IndexSegment(i) == [seg |-> "Index", key |-> <<>>, index |-> i]

\* a formatted message: the format string and its string / number arguments
\* (vals: the serde_json values a message prints with their Display form)
MessageV(fmt, strs, nums, vals) == [fmt |-> fmt, strs |-> strs, nums |-> nums, vals |-> vals]
Message(fmt, strs, nums) == MessageV(fmt, strs, nums, <<>>)

IssueNew(message) == [message |-> message, path |-> None]
IssueWithPath(message, path) == [message |-> message, path |-> Some(path)]

Success(v) == [tag |-> "Success", value |-> Some(v), issues |-> <<>>]
Failure(issues) == [tag |-> "Failure", value |-> None, issues |-> issues]
is_success(r) == r.tag = "Success"
is_failure(r) == r.tag = "Failure"

-----------------------------------------------------------------------------
(* ExecutionContext and the helpers shared by the engines *)

ObjectCtx(current_key) == [ctx |-> "Object", current_key |-> current_key]
ArrayCtx(current_index, items_ops_start) ==
    [ctx |-> "Array", current_index |-> current_index, items_ops_start |-> items_ops_start]

\* Vec::pop (nothing happens on an empty Vec), Vec::last
Pop(s) == IF s = <<>> THEN s ELSE SubSeq(s, 1, Len(s) - 1)
Last(s) == IF s = <<>> THEN None ELSE Some(s[Len(s)])
LastIs(s, kind) == s # <<>> /\ s[Len(s)].ctx = kind

\* get_current_value: walk from the root along the context stack
\* (the copy inside execute_compiled_bool, lines 664-682, is the same code)
RECURSIVE get_current_value(_, _)
get_current_value(root, context_stack) ==
    IF context_stack = <<>> THEN Some(root)
    ELSE
    LET ctx == Head(context_stack)
    IN  IF ctx.ctx = "Object"
        THEN IF IsSome(ctx.current_key)
             THEN IF ~is_object(root) THEN None
                  ELSE LET m == MapGet(root.entries, Unwrap(ctx.current_key))
                       IN  IF IsSome(m)
                           THEN get_current_value(Unwrap(m), Tail(context_stack))
                           ELSE None
             ELSE get_current_value(root, Tail(context_stack))
        ELSE IF ~is_array(root) \/ ctx.current_index >= Len(root.items) THEN None
             ELSE get_current_value(root.items[ctx.current_index + 1], Tail(context_stack))

\* the length of the array the top Array frame iterates:
\* get_current_value(value, &parent_ctx).and_then(as_array).map(len).unwrap_or(0)
ParentArrayLen(root, context_stack) ==
    LET parent == get_current_value(root, Pop(context_stack))
    IN  IF IsSome(parent) /\ is_array(Unwrap(parent)) THEN Len(Unwrap(parent).items) ELSE 0

\* The skip loop of CheckProperty, entered with `depth = 0; ip += 1`:
\* the value of ip when the loop is left (after `ip -= 1; break`, or at the end).
\* a skip that stops at once: the sub-schema of the property runs
SkipProperty_None(ops, ip, depth) == ip - 1

\* a skip that consumes the operation it stops at
RECURSIVE SkipProperty_Consuming(_, _, _)
SkipProperty_Consuming(ops, ip, depth) ==
    IF ip >= Len(ops) THEN ip
    ELSE
    LET o == ops[ip + 1].op
    IN  IF o \in {"EnterObject", "EnterArray"} THEN SkipProperty_Consuming(ops, ip + 1, depth + 1)
        ELSE IF o \in {"ExitObject", "ExitArray"}
             THEN IF depth = 0 THEN ip ELSE SkipProperty_Consuming(ops, ip + 1, depth - 1)
        ELSE IF o = "CheckProperty" /\ depth = 0 THEN ip
        ELSE SkipProperty_Consuming(ops, ip + 1, depth)

RECURSIVE SkipProperty(_, _, _)
SkipProperty(ops, ip, depth) ==
    IF ip >= Len(ops) THEN ip
    ELSE
    LET o == ops[ip + 1].op
    IN  IF o \in {"EnterObject", "EnterArray"} THEN SkipProperty(ops, ip + 1, depth + 1)
        ELSE IF o \in {"ExitObject", "ExitArray"}
             THEN IF depth = 0 THEN ip - 1 ELSE SkipProperty(ops, ip + 1, depth - 1)
        ELSE IF o = "CheckProperty" /\ depth = 0 THEN ip - 1
        ELSE SkipProperty(ops, ip + 1, depth)

\* a skip of the items that consumes the ExitArray it stops at
RECURSIVE SkipToExitArray_Consuming(_, _, _)
SkipToExitArray_Consuming(ops, ip, depth) ==
    IF ip >= Len(ops) THEN ip
    ELSE
    LET o == ops[ip + 1].op
    IN  IF o = "EnterArray" THEN SkipToExitArray_Consuming(ops, ip + 1, depth + 1)
        ELSE IF o = "ExitArray"
             THEN IF depth - 1 = 0 THEN ip ELSE SkipToExitArray_Consuming(ops, ip + 1, depth - 1)
        ELSE SkipToExitArray_Consuming(ops, ip + 1, depth)

\* a skip of the items that stops at the first ExitArray, whatever the depth
RECURSIVE SkipToExitArray_FirstExit(_, _, _)
SkipToExitArray_FirstExit(ops, ip, depth) ==
    IF ip >= Len(ops) THEN ip
    ELSE
    LET o == ops[ip + 1].op
    IN  IF o = "ExitArray" THEN ip - 1
        ELSE SkipToExitArray_FirstExit(ops, ip + 1, depth)

\* The skip loop of CheckArrayItems, entered with `depth = 1; ip += 1`.
RECURSIVE SkipToExitArray(_, _, _)
SkipToExitArray(ops, ip, depth) ==
    IF ip >= Len(ops) THEN ip
    ELSE
    LET o == ops[ip + 1].op
    IN  IF o = "EnterArray" THEN SkipToExitArray(ops, ip + 1, depth + 1)
        ELSE IF o = "ExitArray"
             THEN IF depth - 1 = 0 THEN ip - 1 ELSE SkipToExitArray(ops, ip + 1, depth - 1)
        ELSE SkipToExitArray(ops, ip + 1, depth)

-----------------------------------------------------------------------------
(* execute_compiled: the full-diagnostic engine.                           *)
(* Every Diag<Op> gives the state after the match arm of <Op>, before the  *)
(* `ip += 1` that ends the loop body.                                      *)

DiagStart ==
    [ip |-> 0, context_stack |-> <<>>, path_stack |-> <<>>, issues |-> <<>>,
     halted |-> FALSE, executed |-> <<>>]

\* an issue that ends the walk
PushIssue_StopWalk(st, message) ==
    [st EXCEPT !.issues = Append(@, IssueWithPath(message, st.path_stack)),
               !.halted = TRUE]

PushIssue(st, message) ==
    [st EXCEPT !.issues = Append(@, IssueWithPath(message, st.path_stack))]

\* a failed type check that passes over the operation after it
DiagCheckType_SuppressNext(st, op, root) ==
    LET v == get_current_value(root, st.context_stack)
    IN  IF IsSome(v) /\ ~check_type_tag(Unwrap(v), op.tag)
        THEN [PushIssue(st, Message("Expected type {}, got {}",
                                    <<TypeTagName(op.tag), json_type_name(Unwrap(v))>>, <<>>))
                 EXCEPT !.ip = @ + 1]
        ELSE st

DiagCheckType(st, op, root) ==
    LET v == get_current_value(root, st.context_stack)
    IN  IF IsSome(v) /\ ~check_type_tag(Unwrap(v), op.tag)
        THEN PushIssue(st, Message("Expected type {}, got {}",
                                   <<TypeTagName(op.tag), json_type_name(Unwrap(v))>>, <<>>))
        ELSE st

\* numeric checks that treat every bound as exclusive
DiagCheckNumber_AllExclusive(st, op, root) ==
    LET v == get_current_value(root, st.context_stack)
        n == IF IsSome(v) THEN as_f64(Unwrap(v)) ELSE None
        fails ==
            /\ IsSome(n)
            /\ (IF op.op \in {"CheckMinimum", "CheckExclusiveMinimum"}
                THEN Unwrap(n) <= op.n ELSE Unwrap(n) >= op.n)
    IN  IF fails THEN PushIssue(st, Message("Value {} violates {}", <<>>, <<Unwrap(n), op.n>>))
        ELSE st

\* the four numeric checks differ in the comparison and the message only
DiagCheckNumber(st, op, root) ==
    LET v == get_current_value(root, st.context_stack)
        n == IF IsSome(v) THEN as_f64(Unwrap(v)) ELSE None
        fails ==
            /\ IsSome(n)
            /\ CASE op.op = "CheckMinimum" -> Unwrap(n) < op.n
                 [] op.op = "CheckMaximum" -> Unwrap(n) > op.n
                 [] op.op = "CheckExclusiveMinimum" -> Unwrap(n) <= op.n
                 [] op.op = "CheckExclusiveMaximum" -> Unwrap(n) >= op.n
        fmt ==
            CASE op.op = "CheckMinimum" -> "Value {} is less than minimum {}"
              [] op.op = "CheckMaximum" -> "Value {} is greater than maximum {}"
              [] op.op = "CheckExclusiveMinimum" -> "Value {} must be greater than {}"
              [] op.op = "CheckExclusiveMaximum" -> "Value {} must be less than {}"
    IN  IF fails THEN PushIssue(st, Message(fmt, <<>>, <<Unwrap(n), op.n>>)) ELSE st

DiagCheckMinLength(st, op, root) ==
    LET v == get_current_value(root, st.context_stack)
        s == IF IsSome(v) THEN as_str(Unwrap(v)) ELSE None
    IN  IF IsSome(s) /\ CharCount(Unwrap(s)) < op.n
        THEN PushIssue(st, Message("String length {} is less than minimum {}",
                                   <<>>, <<CharCount(Unwrap(s)), op.n>>))
        ELSE st

DiagCheckMaxLength(st, op, root) ==
    LET v == get_current_value(root, st.context_stack)
        s == IF IsSome(v) THEN as_str(Unwrap(v)) ELSE None
    IN  IF IsSome(s) /\ CharCount(Unwrap(s)) > op.n
        THEN PushIssue(st, Message("String length {} is greater than maximum {}",
                                   <<>>, <<CharCount(Unwrap(s)), op.n>>))
        ELSE st

DiagCheckMinItems(st, op, root) ==
    LET v == get_current_value(root, st.context_stack)
        arr == IF IsSome(v) THEN as_array(Unwrap(v)) ELSE None
    IN  IF IsSome(arr) /\ Len(Unwrap(arr)) < op.n
        THEN PushIssue(st, Message("Array has {} items, minimum is {}",
                                   <<>>, <<Len(Unwrap(arr)), op.n>>))
        ELSE st

\* a maxItems check that also rejects an array of exactly the maximum size
DiagCheckMaxItems_Inclusive(st, op, root) ==
    LET v == get_current_value(root, st.context_stack)
        arr == IF IsSome(v) THEN as_array(Unwrap(v)) ELSE None
    IN  IF IsSome(arr) /\ Len(Unwrap(arr)) >= op.n
        THEN PushIssue(st, Message("Array has {} items, maximum is {}",
                                   <<>>, <<Len(Unwrap(arr)), op.n>>))
        ELSE st

DiagCheckMaxItems(st, op, root) ==
    LET v == get_current_value(root, st.context_stack)
        arr == IF IsSome(v) THEN as_array(Unwrap(v)) ELSE None
    IN  IF IsSome(arr) /\ Len(Unwrap(arr)) > op.n
        THEN PushIssue(st, Message("Array has {} items, maximum is {}",
                                   <<>>, <<Len(Unwrap(arr)), op.n>>))
        ELSE st

DiagEnterObject(st) ==
    [st EXCEPT !.context_stack = Append(@, ObjectCtx(None))]

DiagCheckProperty(st, op, root, ops) ==
    LET top == Len(st.context_stack)
        \* "First, clean up from previous property if any"
        cleaned ==
            IF LastIs(st.context_stack, "Object") /\ IsSome(st.context_stack[top].current_key)
            THEN [st EXCEPT !.path_stack = Pop(@),
                            !.context_stack[top].current_key = None]
            ELSE st
        obj_value == get_current_value(root, cleaned.context_stack)
    IN  IF IsSome(obj_value) /\ is_object(Unwrap(obj_value))
        THEN IF ContainsKey(Unwrap(obj_value).entries, op.key)
             THEN [cleaned EXCEPT
                      !.context_stack =
                          IF LastIs(@, "Object")
                          THEN [@ EXCEPT ![top].current_key = Some(op.key)]
                          ELSE @,
                      !.path_stack = Append(@, KeySegment(op.key))]
             ELSE IF op.required
             THEN [PushIssue(cleaned, Message("Missing required property '{}'",
                                              <<op.key>>, <<>>))
                      EXCEPT !.ip = SkipProperty(ops, cleaned.ip + 1, 0)]
             ELSE [cleaned EXCEPT !.ip = SkipProperty(ops, cleaned.ip + 1, 0)]
        ELSE cleaned

\* an ExitObject that leaves its frame on the context stack
DiagExitObject_KeepsFrame(st) == [st EXCEPT !.path_stack = Pop(@)]

DiagExitObject(st) ==
    LET top == Len(st.context_stack)
    IN  [st EXCEPT
            !.path_stack =
                IF LastIs(st.context_stack, "Object")
                   /\ IsSome(st.context_stack[top].current_key)
                THEN Pop(@) ELSE @,
            !.context_stack = Pop(@)]

\* an iteration that starts at the second element
DiagEnterArray_FromOne(st) ==
    [st EXCEPT !.context_stack = Append(@, ArrayCtx(1, st.ip + 1))]

DiagEnterArray(st) ==
    [st EXCEPT !.context_stack = Append(@, ArrayCtx(0, st.ip + 1))]

DiagCheckArrayItems(st, root, ops) ==
    LET top == Len(st.context_stack)
        isArr == LastIs(st.context_stack, "Array")
        current_idx == IF isArr THEN st.context_stack[top].current_index ELSE 0
        should_process ==
            isArr /\ current_idx < ParentArrayLen(root, st.context_stack)
        \* "Pop previous item's path if needed"
        popped == IF current_idx > 0 THEN Pop(st.path_stack) ELSE st.path_stack
    IN  IF should_process
        THEN [st EXCEPT !.path_stack = Append(popped, IndexSegment(current_idx))]
        ELSE [st EXCEPT !.path_stack = popped,
                        !.ip = SkipToExitArray(ops, st.ip + 1, 1)]

\* an ExitArray that jumps back once more than the array has elements left
DiagExitArray_OneMore(st, root) ==
    LET top == Len(st.context_stack)
        isArr == LastIs(st.context_stack, "Array")
        arr_len == IF isArr THEN ParentArrayLen(root, st.context_stack) ELSE 0
    IN  IF isArr /\ st.context_stack[top].current_index < arr_len
        THEN [st EXCEPT !.context_stack[top].current_index = @ + 1,
                        !.ip = st.context_stack[top].items_ops_start - 1]
        ELSE [st EXCEPT !.context_stack = Pop(@)]

DiagExitArray(st, root) ==
    LET top == Len(st.context_stack)
        isArr == LastIs(st.context_stack, "Array")
        arr_len == IF isArr THEN ParentArrayLen(root, st.context_stack) ELSE 0
        items_start == IF isArr THEN st.context_stack[top].items_ops_start ELSE 0
    IN  IF isArr
        THEN LET current_index == st.context_stack[top].current_index
                 \* "Pop current item path if we had one"
                 path == IF current_index < arr_len THEN Pop(st.path_stack) ELSE st.path_stack
             IN  IF current_index + 1 < arr_len
                 THEN [st EXCEPT !.path_stack = path,
                                 !.context_stack[top].current_index = current_index + 1,
                                 !.ip = items_start - 1]
                 ELSE [st EXCEPT !.path_stack = path, !.context_stack = Pop(@)]
        ELSE [st EXCEPT !.context_stack = Pop(@)]

\* one iteration of `while ip < compiled.ops.len()`
DiagStep(ops, root, st) ==
    IF st.ip >= Len(ops) THEN [st EXCEPT !.halted = TRUE]
    ELSE
    LET op == ops[st.ip + 1]
        ran == [st EXCEPT !.executed = Append(@, st.ip)]
        after ==
            CASE op.op = "CheckType" -> DiagCheckType(ran, op, root)
              [] op.op \in {"CheckMinimum", "CheckMaximum",
                            "CheckExclusiveMinimum", "CheckExclusiveMaximum"} ->
                     DiagCheckNumber(ran, op, root)
              [] op.op = "CheckMinLength" -> DiagCheckMinLength(ran, op, root)
              [] op.op = "CheckMaxLength" -> DiagCheckMaxLength(ran, op, root)
              [] op.op = "CheckMinItems" -> DiagCheckMinItems(ran, op, root)
              [] op.op = "CheckMaxItems" -> DiagCheckMaxItems(ran, op, root)
              [] op.op = "EnterObject" -> DiagEnterObject(ran)
              [] op.op = "CheckProperty" -> DiagCheckProperty(ran, op, root, ops)
              [] op.op = "ExitObject" -> DiagExitObject(ran)
              [] op.op = "EnterArray" -> DiagEnterArray(ran)
              [] op.op = "CheckArrayItems" -> DiagCheckArrayItems(ran, root, ops)
              [] op.op = "ExitArray" -> DiagExitArray(ran, root)
              [] op.op = "Done" -> ran
    IN  IF op.op = "Done" THEN [after EXCEPT !.halted = TRUE]
        ELSE [after EXCEPT !.ip = @ + 1]

\* a result that is a Failure whatever the issue list holds
DiagResult_AlwaysFailure(root, st) == Failure(st.issues)

\* the value execute_compiled returns once the loop is left
DiagResult(root, st) ==
    IF st.issues = <<>> THEN Success(root) ELSE Failure(st.issues)

RECURSIVE DiagRun(_, _, _)
DiagRun(ops, root, st) ==
    IF st.halted THEN st ELSE DiagRun(ops, root, DiagStep(ops, root, st))

execute_compiled(root, ops) == DiagResult(root, DiagRun(ops, root, DiagStart))

-----------------------------------------------------------------------------
(* execute_compiled_bool: the boolean fast path.                           *)
(* `returned` is None while the loop runs and Some(b) once the function    *)
(* has returned b.                                                         *)

BoolStart == [ip |-> 0, context_stack |-> <<>>, returned |-> None, executed |-> <<>>]

\* a failing check that lets the walk go on
ReturnFalse_Continue(st) == st

ReturnFalse(st) == [st EXCEPT !.returned = Some(FALSE)]

BoolCheckType(st, op, root) ==
    LET v == get_current_value(root, st.context_stack)
    IN  IF IsSome(v) /\ ~check_type_tag(Unwrap(v), op.tag) THEN ReturnFalse(st) ELSE st

BoolCheckNumber(st, op, root) ==
    LET v == get_current_value(root, st.context_stack)
        n == IF IsSome(v) THEN as_f64(Unwrap(v)) ELSE None
        fails ==
            /\ IsSome(n)
            /\ CASE op.op = "CheckMinimum" -> Unwrap(n) < op.n
                 [] op.op = "CheckMaximum" -> Unwrap(n) > op.n
                 [] op.op = "CheckExclusiveMinimum" -> Unwrap(n) <= op.n
                 [] op.op = "CheckExclusiveMaximum" -> Unwrap(n) >= op.n
    IN  IF fails THEN ReturnFalse(st) ELSE st

\* "Use byte len for speed": s.len()
BoolCheckMinLength(st, op, root) ==
    LET v == get_current_value(root, st.context_stack)
        s == IF IsSome(v) THEN as_str(Unwrap(v)) ELSE None
    IN  IF IsSome(s) /\ ByteLen(Unwrap(s)) < op.n THEN ReturnFalse(st) ELSE st

BoolCheckMaxLength(st, op, root) ==
    LET v == get_current_value(root, st.context_stack)
        s == IF IsSome(v) THEN as_str(Unwrap(v)) ELSE None
    IN  IF IsSome(s) /\ ByteLen(Unwrap(s)) > op.n THEN ReturnFalse(st) ELSE st

BoolCheckMinItems(st, op, root) ==
    LET v == get_current_value(root, st.context_stack)
        arr == IF IsSome(v) THEN as_array(Unwrap(v)) ELSE None
    IN  IF IsSome(arr) /\ Len(Unwrap(arr)) < op.n THEN ReturnFalse(st) ELSE st

BoolCheckMaxItems(st, op, root) ==
    LET v == get_current_value(root, st.context_stack)
        arr == IF IsSome(v) THEN as_array(Unwrap(v)) ELSE None
    IN  IF IsSome(arr) /\ Len(Unwrap(arr)) > op.n THEN ReturnFalse(st) ELSE st

BoolEnterObject(st) ==
    [st EXCEPT !.context_stack = Append(@, ObjectCtx(None))]

BoolCheckProperty(st, op, root, ops) ==
    LET top == Len(st.context_stack)
        \* "Clean up previous property"
        cleaned ==
            IF LastIs(st.context_stack, "Object")
            THEN [st EXCEPT !.context_stack[top].current_key = None]
            ELSE st
        obj_value == get_current_value(root, cleaned.context_stack)
    IN  IF IsSome(obj_value) /\ is_object(Unwrap(obj_value))
        THEN IF ContainsKey(Unwrap(obj_value).entries, op.key)
             THEN [cleaned EXCEPT
                      !.context_stack =
                          IF LastIs(@, "Object")
                          THEN [@ EXCEPT ![top].current_key = Some(op.key)]
                          ELSE @]
             ELSE IF op.required THEN ReturnFalse(cleaned)
             ELSE [cleaned EXCEPT !.ip = SkipProperty(ops, cleaned.ip + 1, 0)]
        ELSE cleaned

BoolExitObject(st) == [st EXCEPT !.context_stack = Pop(@)]

BoolEnterArray(st) ==
    [st EXCEPT !.context_stack = Append(@, ArrayCtx(0, st.ip + 1))]

BoolCheckArrayItems(st, root, ops) ==
    LET top == Len(st.context_stack)
        arr_len == ParentArrayLen(root, st.context_stack)
        current_idx ==
            IF LastIs(st.context_stack, "Array")
            THEN st.context_stack[top].current_index ELSE 0
    IN  IF current_idx >= arr_len
        THEN [st EXCEPT !.ip = SkipToExitArray(ops, st.ip + 1, 1)]
        ELSE st

BoolExitArray(st, root) ==
    LET top == Len(st.context_stack)
        isArr == LastIs(st.context_stack, "Array")
        arr_len == IF isArr THEN ParentArrayLen(root, st.context_stack) ELSE 0
        items_start == IF isArr THEN st.context_stack[top].items_ops_start ELSE 0
    IN  IF isArr
        THEN LET current_index == st.context_stack[top].current_index
             IN  IF current_index + 1 < arr_len
                 THEN [st EXCEPT !.context_stack[top].current_index = current_index + 1,
                                 !.ip = items_start - 1]
                 ELSE [st EXCEPT !.context_stack = Pop(@)]
        ELSE [st EXCEPT !.context_stack = Pop(@)]

\* one iteration of `while ip < compiled.ops.len()`; leaving the loop returns true
BoolStep(ops, root, st) ==
    IF st.ip >= Len(ops) THEN [st EXCEPT !.returned = Some(TRUE)]
    ELSE
    LET op == ops[st.ip + 1]
        ran == [st EXCEPT !.executed = Append(@, st.ip)]
        after ==
            CASE op.op = "CheckType" -> BoolCheckType(ran, op, root)
              [] op.op \in {"CheckMinimum", "CheckMaximum",
                            "CheckExclusiveMinimum", "CheckExclusiveMaximum"} ->
                     BoolCheckNumber(ran, op, root)
              [] op.op = "CheckMinLength" -> BoolCheckMinLength(ran, op, root)
              [] op.op = "CheckMaxLength" -> BoolCheckMaxLength(ran, op, root)
              [] op.op = "CheckMinItems" -> BoolCheckMinItems(ran, op, root)
              [] op.op = "CheckMaxItems" -> BoolCheckMaxItems(ran, op, root)
              [] op.op = "EnterObject" -> BoolEnterObject(ran)
              [] op.op = "CheckProperty" -> BoolCheckProperty(ran, op, root, ops)
              [] op.op = "ExitObject" -> BoolExitObject(ran)
              [] op.op = "EnterArray" -> BoolEnterArray(ran)
              [] op.op = "CheckArrayItems" -> BoolCheckArrayItems(ran, root, ops)
              [] op.op = "ExitArray" -> BoolExitArray(ran, root)
              [] op.op = "Done" -> [ran EXCEPT !.returned = Some(TRUE)]
    IN  IF IsSome(after.returned) THEN after ELSE [after EXCEPT !.ip = @ + 1]

RECURSIVE BoolRun(_, _, _)
BoolRun(ops, root, st) ==
    IF IsSome(st.returned) THEN st ELSE BoolRun(ops, root, BoolStep(ops, root, st))

execute_compiled_bool(root, ops) == Unwrap(BoolRun(ops, root, BoolStart).returned)

-----------------------------------------------------------------------------
(* JsValue: the caller's value representation read by execute_compiled_fast *)

JsUndefined == [js |-> "undefined"]
JsNullValue == [js |-> "null"]
JsBoolean(b) == [js |-> "boolean", b |-> b]
JsNumber(x2) == [js |-> "number", x2 |-> x2]
JsString(s) == [js |-> "string", s |-> s]
\* the BigInt 2^53 + j
JsBigInt(j) == [js |-> "bigint", x2 |-> X2_2POW53 + 2 * j]
JsArray(items) == [js |-> "array", items |-> items]
JsObject(entries) == [js |-> "object", entries |-> entries]

S_length == <<"length">>

\* the JsValue that is structurally the generic value v (a JS number has
\* no integer / float representation of its own)
RECURSIVE ToJs(_)
ToJs(v) ==
    CASE v.k = "null" -> JsNullValue
      [] v.k = "bool" -> JsBoolean(v.b)
      [] v.k = "num" -> JsNumber(RoundToF64(v.x2))
      [] v.k = "str" -> JsString(v.s)
      [] v.k = "arr" -> JsArray([i \in 1..Len(v.items) |-> ToJs(v.items[i])])
      [] v.k = "obj" ->
             JsObject([i \in 1..Len(v.entries) |->
                          <<v.entries[i][1], ToJs(v.entries[i][2])>>])

\* js_sys::Array::is_array, JsValue::as_f64, JsValue::as_string
JsIsArray(j) == j.js = "array"
JsAsF64(j) == IF j.js = "number" THEN Some(j.x2) ELSE None
JsAsString(j) == IF j.js = "string" THEN Some(j.s) ELSE None

\* js_sys::Reflect::get(target, key): Err (None) when the target is not an
\* Object, else Ok of the property, undefined when the target has none
ReflectGet(target, key) ==
    CASE target.js = "object" ->
             LET m == MapGet(target.entries, key)
             IN  Some(IF IsSome(m) THEN Unwrap(m) ELSE JsUndefined)
      [] target.js = "array" ->
             Some(IF key = S_length THEN JsNumber(2 * Len(target.items)) ELSE JsUndefined)
      [] OTHER -> None

check_type_tag_js(j, expected) ==
    CASE expected = "String" -> j.js = "string"
      [] expected = "Number" -> IsSome(JsAsF64(j))
      [] expected = "Integer" -> IsSome(JsAsF64(j)) /\ Unwrap(JsAsF64(j)) % 2 = 0
      [] expected = "Boolean" -> j.js = "boolean"
      [] expected = "Null" -> j.js = "null"
      [] expected = "Object" -> j.js = "object"
      [] expected = "Array" -> JsIsArray(j)

\* usize::saturating_sub, Vec::get
SaturatingSub(a, b) == IF a >= b THEN a - b ELSE 0
VecGet(s, i) == IF i < Len(s) THEN Some(s[i + 1]) ELSE None

-----------------------------------------------------------------------------
(* execute_compiled_fast: the engine reading the foreign value directly    *)

FastStart(js) ==
    [ip |-> 0, context_stack |-> <<>>, value_stack |-> <<js>>, returned |-> None,
     executed |-> <<>>]

FastCheckType(st, op) ==
    IF ~check_type_tag_js(Unwrap(Last(st.value_stack)), op.tag) THEN ReturnFalse(st) ELSE st

FastCheckNumber(st, op) ==
    LET n == JsAsF64(Unwrap(Last(st.value_stack)))
        fails ==
            /\ IsSome(n)
            /\ CASE op.op = "CheckMinimum" -> Unwrap(n) < op.n
                 [] op.op = "CheckMaximum" -> Unwrap(n) > op.n
                 [] op.op = "CheckExclusiveMinimum" -> Unwrap(n) <= op.n
                 [] op.op = "CheckExclusiveMaximum" -> Unwrap(n) >= op.n
    IN  IF fails THEN ReturnFalse(st) ELSE st

FastCheckMinLength(st, op) ==
    LET s == JsAsString(Unwrap(Last(st.value_stack)))
    IN  IF IsSome(s) /\ CharCount(Unwrap(s)) < op.n THEN ReturnFalse(st) ELSE st

FastCheckMaxLength(st, op) ==
    LET s == JsAsString(Unwrap(Last(st.value_stack)))
    IN  IF IsSome(s) /\ CharCount(Unwrap(s)) > op.n THEN ReturnFalse(st) ELSE st

FastCheckMinItems(st, op) ==
    LET cur == Unwrap(Last(st.value_stack))
    IN  IF JsIsArray(cur) /\ Len(cur.items) < op.n THEN ReturnFalse(st) ELSE st

FastCheckMaxItems(st, op) ==
    LET cur == Unwrap(Last(st.value_stack))
    IN  IF JsIsArray(cur) /\ Len(cur.items) > op.n THEN ReturnFalse(st) ELSE st

FastEnterObject(st) ==
    [st EXCEPT !.context_stack = Append(@, ObjectCtx(None))]

FastCheckProperty(st, op, ops) ==
    LET top == Len(st.context_stack)
        \* "Pop previous property value if we had one"
        cleaned ==
            IF LastIs(st.context_stack, "Object")
            THEN [st EXCEPT
                     !.value_stack =
                         IF IsSome(st.context_stack[top].current_key) /\ Len(@) > 1
                         THEN Pop(@) ELSE @,
                     !.context_stack[top].current_key = None]
            ELSE st
        obj == Last(cleaned.value_stack)
        prop_value == IF IsSome(obj) THEN ReflectGet(Unwrap(obj), op.key) ELSE None
    IN  IF ~IsSome(obj) THEN ReturnFalse(cleaned)
        ELSE IF IsSome(prop_value) /\ Unwrap(prop_value) # JsUndefined
        THEN [cleaned EXCEPT
                 !.value_stack = Append(@, Unwrap(prop_value)),
                 !.context_stack =
                     IF LastIs(@, "Object")
                     THEN [@ EXCEPT ![top].current_key = Some(op.key)]
                     ELSE @]
        ELSE IF op.required THEN ReturnFalse(cleaned)
        ELSE [cleaned EXCEPT !.ip = SkipProperty(ops, cleaned.ip + 1, 0)]

FastExitObject(st) ==
    LET top == Len(st.context_stack)
    IN  [st EXCEPT
            !.value_stack =
                IF LastIs(st.context_stack, "Object")
                   /\ IsSome(st.context_stack[top].current_key) /\ Len(@) > 1
                THEN Pop(@) ELSE @,
            !.context_stack = Pop(@)]

FastEnterArray(st) ==
    [st EXCEPT !.context_stack = Append(@, ArrayCtx(0, st.ip + 1))]

\* the length read through `parent_idx` in CheckArrayItems and ExitArray
FastParentLen(st) ==
    LET top == Len(st.context_stack)
        parent_idx ==
            IF st.context_stack[top].current_index > 0
            THEN SaturatingSub(Len(st.value_stack), 2)
            ELSE SaturatingSub(Len(st.value_stack), 1)
        parent == VecGet(st.value_stack, parent_idx)
    IN  IF IsSome(parent) /\ JsIsArray(Unwrap(parent)) THEN Len(Unwrap(parent).items) ELSE 0

FastCheckArrayItems(st, ops) ==
    LET top == Len(st.context_stack)
        isArr == LastIs(st.context_stack, "Array")
        current_idx == IF isArr THEN st.context_stack[top].current_index ELSE 0
        arr_len == IF isArr THEN FastParentLen(st) ELSE 0
        \* "Pop previous item if needed"
        popped ==
            IF current_idx > 0 /\ Len(st.value_stack) > 1
            THEN Pop(st.value_stack) ELSE st.value_stack
        parent == VecGet(popped, SaturatingSub(Len(popped), 1))
    IN  IF current_idx < arr_len
        THEN [st EXCEPT
                 !.value_stack =
                     IF IsSome(parent) /\ JsIsArray(Unwrap(parent))
                     THEN Append(popped,
                                 IF current_idx < Len(Unwrap(parent).items)
                                 THEN Unwrap(parent).items[current_idx + 1]
                                 ELSE JsUndefined)
                     ELSE popped]
        ELSE [st EXCEPT !.value_stack = popped,
                        !.ip = SkipToExitArray(ops, st.ip + 1, 1)]

FastExitArray(st) ==
    LET top == Len(st.context_stack)
        isArr == LastIs(st.context_stack, "Array")
        arr_len == IF isArr THEN FastParentLen(st) ELSE 0
        items_start == IF isArr THEN st.context_stack[top].items_ops_start ELSE 0
    IN  IF isArr
        THEN LET current_index == st.context_stack[top].current_index
                 \* "Pop current item if we had one"
                 values ==
                     IF current_index < arr_len /\ Len(st.value_stack) > 1
                     THEN Pop(st.value_stack) ELSE st.value_stack
             IN  IF current_index + 1 < arr_len
                 THEN [st EXCEPT !.value_stack = values,
                                 !.context_stack[top].current_index = current_index + 1,
                                 !.ip = items_start - 1]
                 ELSE [st EXCEPT !.value_stack = values, !.context_stack = Pop(@)]
        ELSE [st EXCEPT !.context_stack = Pop(@)]

\* one iteration of `while ip < compiled.ops.len()`; leaving the loop returns true
FastStep(ops, st) ==
    IF st.ip >= Len(ops) THEN [st EXCEPT !.returned = Some(TRUE)]
    ELSE IF st.value_stack = <<>> THEN ReturnFalse(st)
    ELSE
    LET op == ops[st.ip + 1]
        ran == [st EXCEPT !.executed = Append(@, st.ip)]
        after ==
            CASE op.op = "CheckType" -> FastCheckType(ran, op)
              [] op.op \in {"CheckMinimum", "CheckMaximum",
                            "CheckExclusiveMinimum", "CheckExclusiveMaximum"} ->
                     FastCheckNumber(ran, op)
              [] op.op = "CheckMinLength" -> FastCheckMinLength(ran, op)
              [] op.op = "CheckMaxLength" -> FastCheckMaxLength(ran, op)
              [] op.op = "CheckMinItems" -> FastCheckMinItems(ran, op)
              [] op.op = "CheckMaxItems" -> FastCheckMaxItems(ran, op)
              [] op.op = "EnterObject" -> FastEnterObject(ran)
              [] op.op = "CheckProperty" -> FastCheckProperty(ran, op, ops)
              [] op.op = "ExitObject" -> FastExitObject(ran)
              [] op.op = "EnterArray" -> FastEnterArray(ran)
              [] op.op = "CheckArrayItems" -> FastCheckArrayItems(ran, ops)
              [] op.op = "ExitArray" -> FastExitArray(ran)
              [] op.op = "Done" -> [ran EXCEPT !.returned = Some(TRUE)]
    IN  IF IsSome(after.returned) THEN after ELSE [after EXCEPT !.ip = @ + 1]

RECURSIVE FastRun(_, _)
FastRun(ops, st) ==
    IF IsSome(st.returned) THEN st ELSE FastRun(ops, FastStep(ops, st))

execute_compiled_fast(js, ops) == Unwrap(FastRun(ops, FastStart(js)).returned)

-----------------------------------------------------------------------------
(* validate_against_schema: the interpreted reference validator            *)

RECURSIVE validate_type(_, _)
validate_type(v, type_value) ==
    CASE is_string(type_value) ->
             LET tag == parse_type_tag(type_value.s)
             IN  IF IsSome(tag) THEN check_type_tag(v, Unwrap(tag)) ELSE TRUE
      [] is_array(type_value) ->
             \E i \in 1..Len(type_value.items) : validate_type(v, type_value.items[i])
      [] OTHER -> TRUE

\* the path of an issue with `segment` put in front (issue.path.take(), extend)
PrependPath(issue, segment) ==
    [issue EXCEPT !.path = Some(<<segment>> \o (IF IsSome(@) THEN Unwrap(@) ELSE <<>>))]
PrependAll(issues, segment) == [i \in 1..Len(issues) |-> PrependPath(issues[i], segment)]

\* Option<Vec<ValidationIssue>>: None when no issue was collected
NoneIfEmpty(issues) == IF issues = <<>> THEN None ELSE Some(issues)

\* the comparison that makes a bound fail
Fails(cmp, a, b) ==
    CASE cmp = "<" -> a < b
      [] cmp = ">" -> a > b
      [] cmp = "<=" -> a <= b
      [] cmp = ">=" -> a >= b

\* one `if let Some(Value::Number(..)) = schema.get(key)` block of
\* validate_number_schema / validate_string_schema / validate_array_schema
BoundIssue(schema_obj, key, unsigned, n, cmp, fmt) ==
    LET got == MapGet(schema_obj, key)
        limit == IF IsSome(got) /\ is_number(Unwrap(got))
                 THEN (IF unsigned THEN as_u64(Unwrap(got)) ELSE as_f64(Unwrap(got)))
                 ELSE None
    IN  IF IsSome(limit) /\ Fails(cmp, n, Unwrap(limit))
        THEN <<IssueNew(Message(fmt, <<>>, <<n, Unwrap(limit)>>))>>
        ELSE <<>>


validate_number_schema(v, schema_obj) ==
    LET num == as_f64(v)
    IN  IF ~IsSome(num) THEN None
        ELSE NoneIfEmpty(
            BoundIssue(schema_obj, S_minimum, FALSE, Unwrap(num), "<",
                       "Value {} is less than minimum {}")
            \o BoundIssue(schema_obj, S_maximum, FALSE, Unwrap(num), ">",
                          "Value {} is greater than maximum {}")
            \o BoundIssue(schema_obj, S_exclusiveMinimum, FALSE, Unwrap(num), "<=",
                          "Value {} must be greater than {}")
            \o BoundIssue(schema_obj, S_exclusiveMaximum, FALSE, Unwrap(num), ">=",
                          "Value {} must be less than {}"))

validate_string_schema(v, schema_obj) ==
    LET s == as_str(v)
    IN  IF ~IsSome(s) THEN None
        ELSE NoneIfEmpty(
            BoundIssue(schema_obj, S_minLength, TRUE, CharCount(Unwrap(s)), "<",
                       "String length {} is less than minimum {}")
            \o BoundIssue(schema_obj, S_maxLength, TRUE, CharCount(Unwrap(s)), ">",
                          "String length {} is greater than maximum {}"))

RECURSIVE validate_against_schema(_, _)
RECURSIVE PropertyIssues(_, _, _)
RECURSIVE ItemIssues(_, _, _)

\* `for req in required`, from element i on
RECURSIVE RequiredIssues(_, _, _)
RequiredIssues(required, obj, i) ==
    IF i > Len(required) THEN <<>>
    ELSE (IF is_string(required[i]) /\ ~ContainsKey(obj, required[i].s)
          THEN <<IssueWithPath(Message("Missing required property '{}'",
                                       <<required[i].s>>, <<>>),
                               <<KeySegment(required[i].s)>>)>>
          ELSE <<>>)
         \o RequiredIssues(required, obj, i + 1)

\* `for (key, prop_schema) in properties`, from entry i on
PropertyIssues(properties, obj, i) ==
    IF i > Len(properties) THEN <<>>
    ELSE LET key == properties[i][1]
             prop_value == MapGet(obj, key)
             result == validate_against_schema(Unwrap(prop_value), properties[i][2])
         IN  (IF IsSome(prop_value) /\ is_failure(result)
              THEN PrependAll(result.issues, KeySegment(key))
              ELSE <<>>)
             \o PropertyIssues(properties, obj, i + 1)

validate_object_schema(v, schema_obj) ==
    LET obj == as_object(v)
        required == MapGet(schema_obj, S_required)
        properties == MapGet(schema_obj, S_properties)
    IN  IF ~IsSome(obj) THEN None
        ELSE NoneIfEmpty(
            (IF IsSome(required) /\ is_array(Unwrap(required))
             THEN RequiredIssues(Unwrap(required).items, Unwrap(obj), 1) ELSE <<>>)
            \o (IF IsSome(properties) /\ is_object(Unwrap(properties))
                THEN PropertyIssues(Unwrap(properties).entries, Unwrap(obj), 1) ELSE <<>>))

\* `for (index, item) in arr.iter().enumerate()`, from index i on (0-based)
ItemIssues(arr, items_schema, i) ==
    IF i >= Len(arr) THEN <<>>
    ELSE LET result == validate_against_schema(arr[i + 1], items_schema)
         IN  (IF is_failure(result) THEN PrependAll(result.issues, IndexSegment(i))
              ELSE <<>>)
             \o ItemIssues(arr, items_schema, i + 1)

validate_array_schema(v, schema_obj) ==
    LET arr == as_array(v)
        items_schema == MapGet(schema_obj, S_items)
    IN  IF ~IsSome(arr) THEN None
        ELSE NoneIfEmpty(
            (IF IsSome(items_schema) THEN ItemIssues(Unwrap(arr), Unwrap(items_schema), 0)
             ELSE <<>>)
            \o BoundIssue(schema_obj, S_minItems, TRUE, Len(Unwrap(arr)), "<",
                          "Array has {} items, minimum is {}")
            \o BoundIssue(schema_obj, S_maxItems, TRUE, Len(Unwrap(arr)), ">",
                          "Array has {} items, maximum is {}"))

validate_against_schema(v, node) ==
    IF ~is_object(node) THEN Success(v)
    ELSE
    LET schema_obj == node.entries
        type_value == MapGet(schema_obj, S_type)
        number_issues == IF is_number(v) THEN validate_number_schema(v, schema_obj) ELSE None
        string_issues == IF is_string(v) THEN validate_string_schema(v, schema_obj) ELSE None
        object_issues == IF is_object(v) THEN validate_object_schema(v, schema_obj) ELSE None
        array_issues == IF is_array(v) THEN validate_array_schema(v, schema_obj) ELSE None
    IN  IF IsSome(type_value) /\ ~validate_type(v, Unwrap(type_value))
        THEN Failure(<<IssueNew(MessageV("Expected type {}, got {}",
                                         <<json_type_name(v)>>, <<>>,
                                         <<Unwrap(type_value)>>))>>)
        ELSE IF IsSome(number_issues) THEN Failure(Unwrap(number_issues))
        ELSE IF IsSome(string_issues) THEN Failure(Unwrap(string_issues))
        ELSE IF IsSome(object_issues) THEN Failure(Unwrap(object_issues))
        ELSE IF IsSome(array_issues) THEN Failure(Unwrap(array_issues))
        ELSE Success(v)

-----------------------------------------------------------------------------
(* SchemaRegistry *)

JsSymbol == [js |-> "symbol"]

\* serde_wasm_bindgen::from_value::<serde_json::Value>: None stands for Err.
\* A JS number that is an integer arrives as an integer, undefined as null;
\* a BigInt that fits 64 bits arrives as an integer; a symbol cannot be
\* deserialized.
RECURSIVE from_value(_)
RECURSIVE from_value_all(_)
from_value_all(js_items) ==
    IF js_items = <<>> THEN Some(<<>>)
    ELSE LET head == from_value(Head(js_items))
             rest == from_value_all(Tail(js_items))
         IN  IF IsSome(head) /\ IsSome(rest) THEN Some(<<Unwrap(head)>> \o Unwrap(rest))
             ELSE None
from_value(j) ==
    CASE j.js \in {"undefined", "null"} -> Some(JNull)
      [] j.js = "boolean" -> Some(JBool(j.b))
      [] j.js = "number" ->
             Some(IF j.x2 % 2 = 0 /\ j.x2 < X2_2POW53
                  THEN [k |-> "num", float |-> FALSE, x2 |-> j.x2]
                  ELSE JFloat(j.x2))
      [] j.js = "bigint" -> Some([k |-> "num", float |-> FALSE, x2 |-> j.x2])
      [] j.js = "string" -> Some(JStr(j.s))
      [] j.js = "array" ->
             LET items == from_value_all(j.items)
             IN  IF IsSome(items) THEN Some(JArr(Unwrap(items))) ELSE None
      [] j.js = "object" ->
             LET vals == from_value_all([i \in 1..Len(j.entries) |-> j.entries[i][2]])
             IN  IF IsSome(vals)
                 THEN Some(JObj([i \in 1..Len(j.entries) |->
                                    <<j.entries[i][1], Unwrap(vals)[i]>>]))
                 ELSE None
      [] OTHER -> None

\* serde_wasm_bindgen::to_value(&result): {value} on success, {issues} on failure
ResultToJs(r) ==
    [value |-> IF is_success(r) THEN Some(ToJs(Unwrap(r.value))) ELSE None,
     issues |-> IF is_failure(r) THEN Some(r.issues) ELSE None]

\* the value holds an integer that no JS number represents exactly (outside
\* the safe range, here from 2^53 on)
RECURSIVE HoldsUnsafeInteger(_)
HoldsUnsafeInteger(v) ==
    CASE v.k = "num" -> ~v.float /\ v.x2 >= X2_2POW53
      [] v.k = "arr" -> \E i \in DOMAIN v.items : HoldsUnsafeInteger(v.items[i])
      [] v.k = "obj" -> \E i \in DOMAIN v.entries : HoldsUnsafeInteger(v.entries[i][2])
      [] OTHER -> FALSE

\* serde_wasm_bindgen::to_value(&result) as a Result: None stands for Err,
\* which the serializer returns for an integer outside the safe range
to_value(r) ==
    IF is_success(r) /\ HoldsUnsafeInteger(Unwrap(r.value)) THEN None
    ELSE Some(ResultToJs(r))

\* JsonSchemaTarget and parse_target
S_draft_2020_12 == <<"draft-2020-12">>
S_draft_07 == <<"draft-07">>
S_openapi_3_0 == <<"openapi-3.0">>
S_schema_key == <<"$schema">>

\* str::to_lowercase on the target strings a caller passes
to_lowercase(s) ==
    CASE s = <<"Draft-07">> -> <<"draft-07">>
      [] s = <<"OpenAPI">> -> <<"openapi">>
      [] OTHER -> s

parse_target(target) ==
    LET t == to_lowercase(target)
    IN  CASE t \in {<<"draft-2020-12">>, <<"draft2020-12">>, <<"2020-12">>} ->
                 Some("Draft202012")
          [] t \in {<<"draft-07">>, <<"draft07">>, <<"07">>} -> Some("Draft07")
          [] t \in {<<"openapi-3.0">>, <<"openapi30">>, <<"openapi">>} -> Some("OpenApi30")
          [] OTHER -> None

schema_uri(target) ==
    CASE target = "Draft202012" -> <<"https://json-schema.org/draft/2020-12/schema">>
      [] target = "Draft07" -> <<"http://json-schema.org/draft-07/schema#">>
      [] target = "OpenApi30" -> <<>>

\* Map::insert: the value of an existing key is replaced, a new key is added
MapInsert(entries, key, v) ==
    IF ContainsKey(entries, key)
    THEN [i \in 1..Len(entries) |->
             IF entries[i][1] = key THEN <<key, v>> ELSE entries[i]]
    ELSE Append(entries, <<key, v>>)

RegisteredSchema(doc, ops) == [schema |-> doc, compiled |-> ops]

\* a map that keeps the entry a name already has
HashMapInsert_KeepExisting(map, name, entry) ==
    IF name \in DOMAIN map THEN map
    ELSE [n \in DOMAIN map \cup {name} |-> IF n = name THEN entry ELSE map[n]]

\* a map that never lets go of an entry
HashMapRemove_KeepEntry(map, name) == map

\* a map whose remove drops every entry
HashMapRemove_Clear(map, name) == [n \in {} |-> map[n]]

\* a map that holds its last insert only
HashMapInsert_Single(map, name, entry) == [n \in {name} |-> entry]

\* HashMap::insert and HashMap::remove on `schemas`
HashMapInsert(map, name, entry) ==
    [n \in DOMAIN map \cup {name} |-> IF n = name THEN entry ELSE map[n]]
HashMapRemove(map, name) == [n \in DOMAIN map \ {name} |-> map[n]]

\* what a call returned: Ok(ret), or Err with the JsError's message
Ok(op, name, arg, ret) ==
    [op |-> op, name |-> name, arg |-> arg, ok |-> TRUE, ret |-> <<ret>>, err |-> ""]
Err(op, name, arg, err) ==
    [op |-> op, name |-> name, arg |-> arg, ok |-> FALSE, ret |-> <<>>, err |-> err]

-----------------------------------------------------------------------------
(* The bounded inputs: input values and schema documents *)

\* the longest array of an input value
MaxLen == 2

K_name == <<"name">>
K_age == <<"age">>

SeqsUpTo(S, n) == UNION {[1..m -> S] : m \in 0..n}

\* an object with the members `name` and `age`, each present or absent
Member(key, opt) == IF IsSome(opt) THEN <<<<key, Unwrap(opt)>>>> ELSE <<>>
Options(S) == {None} \cup {Some(v) : v \in S}
Objects(NameValues, AgeValues) ==
    {JObj(Member(K_name, n) \o Member(K_age, a)) :
        n \in Options(NameValues), a \in Options(AgeValues)}
Arrays(S) == {JArr(items) : items \in SeqsUpTo(S, MaxLen)}

E_ACUTE == JStr(<<"U+00E9">>)

Scalars ==
    {JNull, JBool(TRUE), JInt(0), JInt(1), JInt(2), JFloat(2), JFloat(3),
     JStr(<<>>), JStr(<<"a">>), JStr(<<"ab">>), E_ACUTE, JStr(<<"a", "U+00E9">>)}
Members == {JInt(0), JInt(1), JStr(<<"ab">>), E_ACUTE}
InnerMembers == {JInt(1), E_ACUTE}
Inner ==
    {JArr(<<JInt(1)>>), JArr(<<JInt(1), E_ACUTE>>), JArr(<<E_ACUTE, JInt(1)>>),
     JObj(<<<<K_name, E_ACUTE>>>>), JObj(<<<<K_age, JInt(1)>>>>)}

\* the values of test_execute_compiled_object
Alice30 == JObj(<<<<K_name, JStr(<<"Alice">>)>>, <<K_age, JInt(30)>>>>)
Age30 == JObj(<<<<K_age, JInt(30)>>>>)
Name123 == JObj(<<<<K_name, JInt(123)>>>>)
TestValues == {Alice30, Age30, Name123}
\* both properties of the object schema of the tests with a value of the wrong type
BothWrong == JObj(<<<<K_name, JInt(1)>>, <<K_age, JStr(<<"ab">>)>>>>)

\* 2^53, 2^53 + 1 and 2^53 + 2, and a negative number
BigNumbers == {JBigInt(0), JBigInt(1), JBigInt(2), JInt(-1)}

\* arrays with an element that is a number but not an integer
FloatArrays == {JArr(<<JFloat(2)>>), JArr(<<JInt(1), JFloat(3)>>)}

\* {name?: {name?: [..], age?: 1}}
Deep == Objects(Objects(Arrays(InnerMembers), {JInt(1)}), {})

Values ==
    Scalars
    \cup Arrays(Members)
    \cup Objects(Members, {JInt(1), JStr(<<"ab">>)})
    \cup Arrays(Inner)
    \cup Objects(Arrays(InnerMembers) \cup Objects(InnerMembers, {}), {JInt(0)})
    \cup Deep
    \cup TestValues
    \cup FloatArrays
    \cup BigNumbers

\* schema documents
Keyword(key, opt) == Member(key, opt)
TypeOf(name) == Some(JStr(name))

LeafStr ==
    JObj(<<<<S_type, JStr(S_string)>>, <<S_minLength, JInt(1)>>, <<S_maxLength, JInt(1)>>>>)
LeafInt == JObj(<<<<S_type, JStr(S_integer)>>, <<S_minimum, JInt(1)>>>>)
LeafNum ==
    JObj(<<<<S_type, JStr(S_number)>>, <<S_exclusiveMinimum, JInt(0)>>,
           <<S_exclusiveMaximum, JInt(2)>>>>)
LeafMax == JObj(<<<<S_maximum, JInt(1)>>, <<S_minItems, JInt(1)>>>>)
LeafAny == JObj(<<>>)

Leaves == {LeafStr, LeafInt, LeafAny}

RequiredLists == {<<>>, <<JStr(K_name)>>, <<JStr(K_name), JStr(K_age)>>}

\* {type?, properties: {name: .., age?: ..}, required: [..]}
ObjectSchemas(Typed, NameSchemas, AgeSchemas, Required) ==
    {JObj(Keyword(S_type, IF typed THEN TypeOf(S_object) ELSE None)
          \o <<<<S_properties, JObj(<<<<K_name, n>>>> \o Member(K_age, a))>>,
               <<S_required, JArr(r)>>>>) :
        typed \in Typed, n \in NameSchemas, a \in Options(AgeSchemas), r \in Required}

\* {type?, items: .., minItems?: 1, maxItems?: 1}
ArraySchemas(Typed, ItemSchemas, Sized) ==
    {JObj(Keyword(S_type, IF typed THEN TypeOf(S_array) ELSE None)
          \o <<<<S_items, i>>>>
          \o (IF sized THEN <<<<S_minItems, JInt(1)>>, <<S_maxItems, JInt(1)>>>> ELSE <<>>)) :
        typed \in Typed, i \in ItemSchemas, sized \in Sized}

Nested ==
    ObjectSchemas({TRUE}, {LeafStr, LeafInt}, {LeafInt}, {<<JStr(K_name)>>})
    \cup ArraySchemas({TRUE}, {LeafStr, LeafInt}, {FALSE})

\* the schema of test_execute_compiled_object
TestSchema ==
    JObj(<<<<S_type, JStr(S_object)>>,
           <<S_properties,
             JObj(<<<<K_name, JObj(<<<<S_type, JStr(S_string)>>>>)>>,
                    <<K_age, JObj(<<<<S_type, JStr(S_integer)>>>>)>>>>)>>,
           <<S_required, JArr(<<JStr(K_name)>>)>>>>)

\* the schema of test_execute_compiled_array, for the sizes m and M
IntegerArraySchema(m, M) ==
    JObj(<<<<S_type, JStr(S_array)>>,
           <<S_items, JObj(<<<<S_type, JStr(S_integer)>>>>)>>,
           <<S_minItems, JInt(m)>>,
           <<S_maxItems, JInt(M)>>>>)
IntegerArraySchemas == {IntegerArraySchema(m, M) : m, M \in 0..MaxLen}

\* one numeric bound: {keyword: bound}
NumericKeywords == {S_minimum, S_maximum, S_exclusiveMinimum, S_exclusiveMaximum}
NumericBounds == {JInt(0), JInt(1), JFloat(3), JBigInt(0), JBigInt(1)}
NumericSchema(keyword, bound) == JObj(<<<<keyword, bound>>>>)
NumericSchemas == {NumericSchema(kw, b) : kw \in NumericKeywords, b \in NumericBounds}

\* documents that are no schema object, and schema objects with an unknown
\* keyword, an unknown or non-string type, a bound that is no number of the
\* kind the keyword reads, `properties` that is no object, `items` that is no
\* object
S_unknown == <<"format">>
OddRoots == {JNull, JBool(TRUE), JInt(1), JStr(S_string), JArr(<<LeafInt>>)}
OddNodes ==
    {JObj(<<<<S_unknown, JStr(<<"email">>)>>>>),
     JObj(<<<<S_type, JStr(<<"text">>)>>>>),
     JObj(<<<<S_type, JArr(<<JStr(S_string), JStr(S_null)>>)>>>>),
     JObj(<<<<S_type, JInt(1)>>>>),
     JObj(<<<<S_minimum, JStr(<<"1">>)>>, <<S_maximum, JNull>>>>),
     JObj(<<<<S_minLength, JInt(-1)>>, <<S_maxLength, JFloat(2)>>>>),
     JObj(<<<<S_minItems, JStr(<<"1">>)>>, <<S_maxItems, JFloat(3)>>>>),
     JObj(<<<<S_properties, JArr(<<LeafInt>>)>>, <<S_required, JArr(<<JStr(K_name)>>)>>>>),
     JObj(<<<<S_items, JBool(TRUE)>>>>)}
OddSchemas ==
    OddRoots \cup OddNodes
    \cup ObjectSchemas({TRUE}, OddRoots \cup OddNodes, {}, {<<JStr(K_name)>>})

\* `required` with members that are no strings or name no declared property,
\* `required` that is no array, and a property `age` required in the inner
\* object only or in the outer object only
InnerAge(r) ==
    JObj(<<<<S_properties, JObj(<<<<K_age, LeafInt>>>>)>>, <<S_required, JArr(r)>>>>)
MixedRequired ==
    JObj(<<<<S_properties, JObj(<<<<K_name, LeafStr>>, <<K_age, LeafInt>>>>)>>,
           <<S_required, JArr(<<JInt(1), JStr(K_name), JStr(S_unknown), JArr(<<JStr(K_age)>>)>>)>>>>)
RequiredSchemas ==
    {MixedRequired,
     JObj(<<<<S_properties, JObj(<<<<K_name, LeafStr>>>>)>>, <<S_required, JStr(K_name)>>>>)}
    \cup ObjectSchemas({FALSE}, {InnerAge(<<JStr(K_age)>>)}, {LeafInt}, {<<JStr(K_name)>>})
    \cup ObjectSchemas({FALSE}, {InnerAge(<<>>)}, {LeafInt}, {<<JStr(K_age)>>})

\* every keyword on one node of type string, in the order of emission and in
\* the opposite order
EveryKeyword ==
    <<<<S_type, JStr(S_string)>>,
      <<S_minimum, JInt(0)>>, <<S_maximum, JInt(1)>>,
      <<S_exclusiveMinimum, JInt(0)>>, <<S_exclusiveMaximum, JInt(1)>>,
      <<S_minLength, JInt(1)>>, <<S_maxLength, JInt(2)>>,
      <<S_properties, JObj(<<<<K_name, LeafStr>>, <<K_age, LeafInt>>>>)>>,
      <<S_required, JArr(<<JStr(K_age)>>)>>,
      <<S_minItems, JInt(1)>>, <<S_maxItems, JInt(2)>>,
      <<S_items, LeafInt>>>>
Reverse(s) == [i \in DOMAIN s |-> s[Len(s) + 1 - i]]
FullNode == JObj(EveryKeyword)
FullNodeReversed == JObj(Reverse(EveryKeyword))
FullSchemas == {FullNode, FullNodeReversed}

\* a string type with a bound of each other kind on the same node
TypedBound ==
    JObj(<<<<S_type, JStr(S_string)>>, <<S_minimum, JInt(1)>>,
           <<S_minLength, JInt(1)>>, <<S_minItems, JInt(1)>>>>)

\* an object whose `name` is an object whose `name` is an array
DeepSchemas ==
    ObjectSchemas({TRUE},
        ObjectSchemas({TRUE}, ArraySchemas({TRUE}, {LeafInt}, {FALSE}), {LeafInt},
                      {<<JStr(K_name), JStr(K_age)>>}),
        {}, {<<JStr(K_name)>>})

Schemas ==
    {LeafStr, LeafInt, LeafNum, LeafMax, LeafAny}
    \cup ObjectSchemas(BOOLEAN, Leaves, {LeafInt}, RequiredLists)
    \cup ArraySchemas(BOOLEAN, Leaves, BOOLEAN)
    \cup ObjectSchemas({TRUE}, Nested, {LeafInt}, {<<>>, <<JStr(K_name)>>})
    \cup ArraySchemas({TRUE}, Nested, {FALSE})
    \cup DeepSchemas
    \cup {TestSchema}
    \cup IntegerArraySchemas
    \cup NumericSchemas
    \cup OddSchemas
    \cup RequiredSchemas
    \cup FullSchemas
    \cup {TypedBound}

-----------------------------------------------------------------------------
(* One validation of `value` against `schema`: compile_schema, then the    *)
(* three engines and the interpreted validator, one after the other.       *)

Names == {<<"User">>, <<"Order">>}

Idle == [op |-> "none", name |-> <<>>, arg |-> <<>>, ok |-> TRUE, ret |-> <<>>, err |-> ""]

\* `registered` remembers, for every name, the document of the last successful
\* register not followed by an unregister (doc), the document that this
\* register replaced (replaced), and whether the name was registered and has
\* been unregistered since (unregistered)
NeverRegistered == [doc |-> None, replaced |-> None, unregistered |-> FALSE]

Init ==
    /\ schema \in Schemas
    /\ value \in Values
    /\ compiled = <<>>
    /\ phase = "compile_schema"
    /\ diag = DiagStart
    /\ fastb = BoolStart
    /\ fastjs = FastStart(ToJs(value))
    /\ interp = None
    /\ registry = <<>>
    /\ call = Idle
    /\ registered = [n \in Names |-> NeverRegistered]
    /\ runs = <<>>

CompileSchema ==
    /\ phase = "compile_schema"
    /\ compiled' = compile_schema(schema)
    /\ phase' = "execute_compiled"
    /\ UNCHANGED <<schema, value, diag, fastb, fastjs, interp, registry, call, registered, runs>>

ExecuteCompiledStep ==
    /\ phase = "execute_compiled"
    /\ diag' = DiagStep(compiled, value, diag)
    /\ phase' = IF diag'.halted THEN "execute_compiled_bool" ELSE phase
    /\ UNCHANGED <<schema, value, compiled, fastb, fastjs, interp, registry, call, registered, runs>>

ExecuteCompiledBoolStep ==
    /\ phase = "execute_compiled_bool"
    /\ fastb' = BoolStep(compiled, value, fastb)
    /\ phase' = IF IsSome(fastb'.returned) THEN "execute_compiled_fast" ELSE phase
    /\ UNCHANGED <<schema, value, compiled, diag, fastjs, interp, registry, call, registered, runs>>

ExecuteCompiledFastStep ==
    /\ phase = "execute_compiled_fast"
    /\ fastjs' = FastStep(compiled, fastjs)
    /\ phase' = IF IsSome(fastjs'.returned) THEN "validate_against_schema" ELSE phase
    /\ UNCHANGED <<schema, value, compiled, diag, fastb, interp, registry, call, registered, runs>>

ValidateAgainstSchema ==
    /\ phase = "validate_against_schema"
    /\ interp' = Some(validate_against_schema(value, schema))
    /\ phase' = "done"
    /\ UNCHANGED <<schema, value, compiled, diag, fastb, fastjs, registry, call, registered, runs>>

Next ==
    \/ CompileSchema
    \/ ExecuteCompiledStep
    \/ ExecuteCompiledBoolStep
    \/ ExecuteCompiledFastStep
    \/ ValidateAgainstSchema

Spec == Init /\ [][Next]_vars

\* The schemas whose operations hold a loop, and values with arrays at the
\* root, inside arrays and inside objects.
HasLoop(ops) == \E i \in DOMAIN ops : ops[i].op = "EnterArray"
LiveSchemas == {s \in Schemas : HasLoop(compile_schema(s))} \cup {TestSchema}
LiveValues ==
    Arrays(InnerMembers) \cup Arrays({JArr(<<JInt(1), E_ACUTE>>)}) \cup Deep
    \cup {Alice30, JInt(1)}

InitLive == Init /\ schema \in LiveSchemas /\ value \in LiveValues

\* compile_schema and each engine are loops without suspension points, run by
\* the one thread of the call: an iteration that can be taken is taken.
SpecLive ==
    /\ InitLive /\ [][Next]_vars
    /\ WF_vars(CompileSchema)
    /\ WF_vars(ExecuteCompiledStep)
    /\ WF_vars(ExecuteCompiledBoolStep)

-----------------------------------------------------------------------------
(* The registry's calls, on a registry created by SchemaRegistry::new      *)

DocUser ==
    JObj(<<<<S_type, JStr(S_object)>>,
           <<S_properties, JObj(<<<<K_name, JObj(<<<<S_type, JStr(S_string)>>>>)>>>>)>>,
           <<S_required, JArr(<<JStr(K_name)>>)>>>>)

\* a document that brings a $schema of its own, a document that is no object
DocDraft07 ==
    JObj(<<<<S_schema_key, JStr(schema_uri("Draft07"))>>, <<S_type, JStr(S_string)>>>>)
DocTrue == JBool(TRUE)

RegistryDocs ==
    {ToJs(LeafStr), ToJs(LeafInt), ToJs(DocUser), ToJs(DocDraft07), ToJs(DocTrue), JsSymbol}
RegistryValues ==
    {ToJs(JStr(<<"a">>)), ToJs(E_ACUTE), ToJs(JInt(1)), ToJs(JObj(<<>>)),
     ToJs(JObj(<<<<K_name, JStr(<<"a">>)>>>>)), JsBigInt(1), JsSymbol}
Targets == {S_draft_2020_12, S_draft_07, S_openapi_3_0, <<"Draft-07">>, <<"invalid">>}

KeyOrders(S) ==
    {f \in [1..Cardinality(S) -> S] : \A i, j \in DOMAIN f : f[i] = f[j] => i = j}

NotFound == "Schema '{}' not found in registry"

InitRegistry ==
    /\ schema = LeafAny
    /\ value = JNull
    /\ compiled = <<>>
    /\ phase = "registry"
    /\ diag = DiagStart
    /\ fastb = BoolStart
    /\ fastjs = FastStart(JsNullValue)
    /\ interp = None
    /\ registry = <<>>
    /\ call = Idle
    /\ registered = [n \in Names |-> NeverRegistered]
    /\ runs = <<>>

\* a register that drops the entry of the name when the document fails to parse
Register_ErrorRemoves(name, schema_json) ==
    LET parsed == from_value(schema_json)
    IN  /\ IF IsSome(parsed)
           THEN /\ registry' =
                       HashMapInsert(registry, name,
                           RegisteredSchema(Unwrap(parsed), compile_schema(Unwrap(parsed))))
                /\ call' = Ok("register", name, <<schema_json>>, "unit")
           ELSE /\ registry' = HashMapRemove(registry, name)
                /\ call' = Err("register", name, <<schema_json>>, "Failed to parse schema: {}")
        /\ registered' =
               IF call'.ok
               THEN [registered EXCEPT
                        ![name] = [doc |-> parsed, replaced |-> @.doc,
                                   unregistered |-> FALSE]]
               ELSE registered
        /\ UNCHANGED <<schema, value, compiled, phase, diag, fastb, fastjs, interp, runs>>

\* a register that stores the new document next to the operations compiled
\* for the document the name had before
Register_StaleCompiled(name, schema_json) ==
    LET parsed == from_value(schema_json)
    IN  /\ IF IsSome(parsed)
           THEN /\ registry' =
                       HashMapInsert(registry, name,
                           RegisteredSchema(Unwrap(parsed),
                               IF name \in DOMAIN registry THEN registry[name].compiled
                               ELSE compile_schema(Unwrap(parsed))))
                /\ call' = Ok("register", name, <<schema_json>>, "unit")
           ELSE /\ registry' = registry
                /\ call' = Err("register", name, <<schema_json>>, "Failed to parse schema: {}")
        /\ registered' =
               IF call'.ok
               THEN [registered EXCEPT
                        ![name] = [doc |-> parsed, replaced |-> @.doc,
                                   unregistered |-> FALSE]]
               ELSE registered
        /\ UNCHANGED <<schema, value, compiled, phase, diag, fastb, fastjs, interp, runs>>

Register(name, schema_json) ==
    LET parsed == from_value(schema_json)
    IN  /\ IF IsSome(parsed)
           THEN /\ registry' =
                       HashMapInsert(registry, name,
                           RegisteredSchema(Unwrap(parsed), compile_schema(Unwrap(parsed))))
                /\ call' = Ok("register", name, <<schema_json>>, "unit")
           ELSE /\ registry' = registry
                /\ call' = Err("register", name, <<schema_json>>, "Failed to parse schema: {}")
        /\ registered' =
               IF call'.ok
               THEN [registered EXCEPT
                        ![name] = [doc |-> parsed, replaced |-> @.doc,
                                   unregistered |-> FALSE]]
               ELSE registered
        /\ UNCHANGED <<schema, value, compiled, phase, diag, fastb, fastjs, interp, runs>>

Unregister(name) ==
    /\ registry' = HashMapRemove(registry, name)
    /\ call' = Ok("unregister", name, <<>>, name \in DOMAIN registry)
    /\ registered' =
           [registered EXCEPT
               ![name] = [doc |-> None, replaced |-> None,
                          unregistered |-> @.unregistered \/ IsSome(@.doc)]]
    /\ UNCHANGED <<schema, value, compiled, phase, diag, fastb, fastjs, interp, runs>>

\* a lookup that only asks whether the registry holds anything
HasSchema_AnyEntry(name) ==
    /\ call' = Ok("hasSchema", name, <<>>, DOMAIN registry # {})
    /\ UNCHANGED <<schema, value, compiled, phase, diag, fastb, fastjs, interp, registry,
                   registered, runs>>

HasSchema(name) ==
    /\ call' = Ok("hasSchema", name, <<>>, name \in DOMAIN registry)
    /\ UNCHANGED <<schema, value, compiled, phase, diag, fastb, fastjs, interp, registry,
                   registered, runs>>

\* the keys of a HashMap come in no particular order
ListSchemas ==
    /\ \E names \in KeyOrders(DOMAIN registry) :
           call' = Ok("listSchemas", <<>>, <<>>, names)
    /\ UNCHANGED <<schema, value, compiled, phase, diag, fastb, fastjs, interp, registry,
                   registered, runs>>

\* a validate that raises the issues of a Failure as an error
Validate_RaisesFailure(name, js) ==
    LET json_value == from_value(js)
        result == execute_compiled(Unwrap(json_value), registry[name].compiled)
    IN  /\ call' =
               IF name \notin DOMAIN registry THEN Err("validate", name, <<js>>, NotFound)
               ELSE IF ~IsSome(json_value)
               THEN Err("validate", name, <<js>>, "Failed to deserialize value: {}")
               ELSE IF is_failure(result)
               THEN Err("validate", name, <<js>>, "Validation failed: {}")
               ELSE IF ~IsSome(to_value(result))
               THEN Err("validate", name, <<js>>, "Failed to serialize result: {}")
               ELSE Ok("validate", name, <<js>>, Unwrap(to_value(result)))
        /\ UNCHANGED <<schema, value, compiled, phase, diag, fastb, fastjs, interp, registry,
                       registered, runs>>

Validate(name, js) ==
    LET json_value == from_value(js)
        result == execute_compiled(Unwrap(json_value), registry[name].compiled)
    IN  /\ call' =
               IF name \notin DOMAIN registry THEN Err("validate", name, <<js>>, NotFound)
               ELSE IF ~IsSome(json_value)
               THEN Err("validate", name, <<js>>, "Failed to deserialize value: {}")
               ELSE IF ~IsSome(to_value(result))
               THEN Err("validate", name, <<js>>, "Failed to serialize result: {}")
               ELSE Ok("validate", name, <<js>>, Unwrap(to_value(result)))
        /\ UNCHANGED <<schema, value, compiled, phase, diag, fastb, fastjs, interp, registry,
                       registered, runs>>

ValidateFast(name, js) ==
    LET json_value == from_value(js)
    IN  /\ call' =
               IF name \notin DOMAIN registry THEN Err("validateFast", name, <<js>>, NotFound)
               ELSE IF ~IsSome(json_value)
               THEN Err("validateFast", name, <<js>>, "Failed to deserialize: {}")
               ELSE Ok("validateFast", name, <<js>>,
                       execute_compiled_bool(Unwrap(json_value), registry[name].compiled))
        /\ UNCHANGED <<schema, value, compiled, phase, diag, fastb, fastjs, interp, registry,
                       registered, runs>>

\* the document json_schema hands to JSON.parse
JsonSchemaDocument(doc, target) ==
    IF is_object(doc) /\ schema_uri(target) # <<>>
    THEN JObj(MapInsert(doc.entries, S_schema_key, JStr(schema_uri(target))))
    ELSE doc

\* a json_schema that inserts $schema into the stored document itself
JsonSchema_InPlace(name, target) ==
    LET parsed == parse_target(target)
        found == name \in DOMAIN registry /\ IsSome(parsed)
        doc == JsonSchemaDocument(registry[name].schema, Unwrap(parsed))
    IN  /\ call' =
               IF name \notin DOMAIN registry THEN Err("jsonSchema", name, <<target>>, NotFound)
               ELSE IF ~IsSome(parsed)
               THEN Err("jsonSchema", name, <<target>>, "Unknown target '{}'")
               ELSE Ok("jsonSchema", name, <<target>>, ToJs(doc))
        /\ registry' = IF found THEN [registry EXCEPT ![name].schema = doc] ELSE registry
        /\ UNCHANGED <<schema, value, compiled, phase, diag, fastb, fastjs, interp,
                       registered, runs>>

JsonSchema(name, target) ==
    LET parsed == parse_target(target)
    IN  /\ call' =
               IF name \notin DOMAIN registry THEN Err("jsonSchema", name, <<target>>, NotFound)
               ELSE IF ~IsSome(parsed)
               THEN Err("jsonSchema", name, <<target>>, "Unknown target '{}'")
               ELSE Ok("jsonSchema", name, <<target>>,
                       ToJs(JsonSchemaDocument(registry[name].schema, Unwrap(parsed))))
        /\ UNCHANGED <<schema, value, compiled, phase, diag, fastb, fastjs, interp, registry,
                       registered, runs>>

NextRegistry ==
    \/ \E name \in Names, schema_json \in RegistryDocs : Register(name, schema_json)
    \/ \E name \in Names : Unregister(name)
    \/ \E name \in Names : HasSchema(name)
    \/ ListSchemas
    \/ \E name \in Names, js \in RegistryValues : Validate(name, js)
    \/ \E name \in Names, js \in RegistryValues : ValidateFast(name, js)
    \/ \E name \in Names, target \in Targets : JsonSchema(name, target)

SpecRegistry == InitRegistry /\ [][NextRegistry]_vars

-----------------------------------------------------------------------------
(* Validation calls in progress at the same time over one CompiledSchema:  *)
(* every call of execute_compiled and execute_compiled_bool borrows        *)
(* `compiled` and creates its own ip, context_stack, path_stack and issues *)

\* the most calls in progress
MaxRuns == 2

ConcurrentSchemas == {TestSchema, IntegerArraySchema(1, 1)}
ConcurrentValues == {Alice30, BothWrong, JArr(<<JInt(1), JStr(<<"ab">>)>>)}
Engines == {"execute_compiled", "execute_compiled_bool"}

InitConcurrent ==
    /\ schema \in ConcurrentSchemas
    /\ value = JNull
    /\ compiled = <<>>
    /\ phase = "compile_schema"
    /\ diag = DiagStart
    /\ fastb = BoolStart
    /\ fastjs = FastStart(JsNullValue)
    /\ interp = None
    /\ registry = <<>>
    /\ call = Idle
    /\ registered = [n \in Names |-> NeverRegistered]
    /\ runs = <<>>

\* a call whose issue list is the one the call before it left behind
NewRun_KeepsIssues(engine, v) ==
    [engine |-> engine, value |-> v,
     diag |-> [DiagStart EXCEPT
                  !.issues = IF runs = <<>> THEN <<>> ELSE runs[Len(runs)].diag.issues],
     fastb |-> BoolStart]

\* the locals of a call at its entry
NewRun(engine, v) ==
    [engine |-> engine, value |-> v, diag |-> DiagStart, fastb |-> BoolStart]

RunReturned(run) ==
    IF run.engine = "execute_compiled" THEN run.diag.halted ELSE IsSome(run.fastb.returned)

\* a call is entered
StartRun(engine, v) ==
    /\ phase = "execute_compiled"
    /\ Len(runs) < MaxRuns
    /\ runs' = Append(runs, NewRun(engine, v))
    /\ UNCHANGED <<schema, value, compiled, phase, diag, fastb, fastjs, interp, registry,
                   call, registered>>

\* one iteration of the loop of one of the calls
StepRun(r) ==
    /\ r \in DOMAIN runs
    /\ ~RunReturned(runs[r])
    /\ LET run == runs[r]
       IN  runs' =
               [runs EXCEPT ![r] =
                   IF run.engine = "execute_compiled"
                   THEN [run EXCEPT !.diag = DiagStep(compiled, run.value, run.diag)]
                   ELSE [run EXCEPT !.fastb = BoolStep(compiled, run.value, run.fastb)]]
    /\ UNCHANGED <<schema, value, compiled, phase, diag, fastb, fastjs, interp, registry,
                   call, registered>>

NextConcurrent ==
    \/ CompileSchema
    \/ \E engine \in Engines, v \in ConcurrentValues : StartRun(engine, v)
    \/ \E r \in 1..MaxRuns : StepRun(r)

SpecConcurrent == InitConcurrent /\ [][NextConcurrent]_vars

-----------------------------------------------------------------------------
(* Properties of the engines, checked under Spec *)

\* the result execute_compiled returned for `value`
DiagReturned == DiagResult(value, diag)

\* C1: for every schema and value, the full-diagnostic engine succeeds exactly
\* when the boolean fast path returns true, strings whose byte length differs
\* from their character count included.
C1_BoolAgreesWithDiag ==
    IsSome(fastb.returned) => (Unwrap(fastb.returned) = is_success(DiagReturned))

\* the path from the root to the value a context stack has in focus: the key of
\* every Object frame that has descended into a property, the index of every
\* Array frame
RECURSIVE ContextPath(_)
ContextPath(context_stack) ==
    IF context_stack = <<>> THEN <<>>
    ELSE
    LET ctx == Head(context_stack)
        segment ==
            IF ctx.ctx = "Array" THEN <<IndexSegment(ctx.current_index)>>
            ELSE IF IsSome(ctx.current_key) THEN <<KeySegment(Unwrap(ctx.current_key))>>
            ELSE <<>>
    IN  segment \o ContextPath(Tail(context_stack))

\* the operations that record an issue at the path stack
IssueOps ==
    {"CheckType", "CheckMinimum", "CheckMaximum", "CheckExclusiveMinimum",
     "CheckExclusiveMaximum", "CheckMinLength", "CheckMaxLength", "CheckMinItems",
     "CheckMaxItems", "CheckProperty"}

\* the operation execute_compiled runs next
DiagRunning == phase = "execute_compiled" /\ ~diag.halted /\ diag.ip < Len(compiled)
DiagOp == compiled[diag.ip + 1]

\* C2: the path stack moves in lockstep with the context stack: whenever an
\* operation that can record an issue runs, the path stack is the sequence of
\* keys and indices from the root to the value in focus, at any nesting depth
\* and at any index.
C2_PathInLockstep ==
    (DiagRunning /\ DiagOp.op \in IssueOps)
        => diag.path_stack = ContextPath(diag.context_stack)

PathContains(path, key) ==
    IsSome(path) /\ \E i \in DOMAIN Unwrap(path) : Unwrap(path)[i] = KeySegment(key)

\* C3: validating {"age": 30} against the schema of test_execute_compiled_object
\* fails with an issue whose path contains "name".
C3_MissingNameInPath ==
    (schema = TestSchema /\ value = Age30 /\ diag.halted)
        => /\ is_failure(DiagReturned)
           /\ \E i \in DOMAIN DiagReturned.issues :
                  PathContains(DiagReturned.issues[i].path, K_name)

\* the context stack once CheckProperty has left the previous property
LeftProperty(context_stack) ==
    IF LastIs(context_stack, "Object")
    THEN [context_stack EXCEPT ![Len(context_stack)].current_key = None]
    ELSE context_stack

\* CheckProperty {key, required: true} runs next and the focused object lacks key
MissingRequired ==
    /\ DiagRunning
    /\ DiagOp.op = "CheckProperty"
    /\ DiagOp.required
    /\ LET obj == get_current_value(value, LeftProperty(diag.context_stack))
       IN  /\ IsSome(obj)
           /\ is_object(Unwrap(obj))
           /\ ~ContainsKey(Unwrap(obj).entries, DiagOp.key)

\* the first operation from ip on that does not belong to the sub-schema of the
\* property before it: the next CheckProperty or ExitObject of the same object
RECURSIVE PropertyEnd(_, _, _)
PropertyEnd(ops, ip, depth) ==
    IF ip >= Len(ops) THEN ip
    ELSE
    LET o == ops[ip + 1].op
    IN  IF depth = 0 /\ o \in {"CheckProperty", "ExitObject"} THEN ip
        ELSE IF o \in {"EnterObject", "EnterArray"} THEN PropertyEnd(ops, ip + 1, depth + 1)
        ELSE IF o \in {"ExitObject", "ExitArray"} THEN PropertyEnd(ops, ip + 1, depth - 1)
        ELSE PropertyEnd(ops, ip + 1, depth)

\* C4: when CheckProperty {key, required: true} runs and the focused object
\* lacks key, the engine records exactly one "missing required property" issue,
\* whose path is the path of the enclosing object itself (not extended by key),
\* and goes on after the operations compiled from the property's sub-schema:
\* none of them is executed, none produces an issue.
C4_MissingRequiredProperty ==
    [][MissingRequired =>
           /\ diag'.issues =
                  Append(diag.issues,
                         IssueWithPath(Message("Missing required property '{}'",
                                               <<DiagOp.key>>, <<>>),
                                       ContextPath(LeftProperty(diag.context_stack))))
           /\ diag'.ip = PropertyEnd(compiled, diag.ip + 1, 0)]_vars

\* C5: for every schema and value, the compiled engine succeeds exactly when
\* the interpreted reference validator validate_against_schema succeeds.
C5_CompiledMatchesInterpreted ==
    IsSome(interp) => (is_success(DiagReturned) = is_success(Unwrap(interp)))

\* C10: for every schema and value, execute_compiled_fast on the JsValue agrees
\* with execute_compiled on the corresponding value, arrays of two or more
\* elements and non-object values under a schema with `properties` included.
C10_FastAgreesWithDiag ==
    IsSome(fastjs.returned) => (Unwrap(fastjs.returned) = is_success(DiagReturned))

\* an issue of the result with this message format at this path
HasIssue(fmt, path) ==
    \E i \in DOMAIN diag.issues :
        diag.issues[i].message.fmt = fmt /\ diag.issues[i].path = Some(path)

\* C11: for {type: array, items: {type: integer}, minItems: m, maxItems: M}
\* the full-diagnostic engine succeeds exactly when the input is an array of
\* m to M elements that are all integers; a size violation is an issue at the
\* array's own path, and an element of the wrong type at index i of the root
\* array is an issue at path [i].
C11_IntegerArray ==
    \A m, M \in 0..MaxLen :
        (schema = IntegerArraySchema(m, M) /\ diag.halted) =>
            /\ is_success(DiagReturned) =
                   (/\ is_array(value)
                    /\ m <= Len(value.items)
                    /\ Len(value.items) <= M
                    /\ \A i \in DOMAIN value.items : is_integer(value.items[i]))
            /\ is_array(value) =>
                   /\ Len(value.items) < m
                          => HasIssue("Array has {} items, minimum is {}", <<>>)
                   /\ Len(value.items) > M
                          => HasIssue("Array has {} items, maximum is {}", <<>>)
                   /\ \A i \in DOMAIN value.items :
                          ~is_integer(value.items[i])
                              => HasIssue("Expected type {}, got {}", <<IndexSegment(i - 1)>>)

\* [1, "ab"] against minItems 1, maxItems 1: too long, and a string at index 1
C11_Witness ==
    /\ schema = IntegerArraySchema(1, 1)
    /\ value = JArr(<<JInt(1), JStr(<<"ab">>)>>)
    /\ diag.halted
    /\ Len(diag.issues) = 2

\* whether the number n violates the bound of the keyword
ViolatesBound(keyword, n, bound) ==
    CASE keyword = S_minimum -> n.x2 < bound.x2
      [] keyword = S_maximum -> n.x2 > bound.x2
      [] keyword = S_exclusiveMinimum -> n.x2 <= bound.x2
      [] keyword = S_exclusiveMaximum -> n.x2 >= bound.x2

\* C12: a numeric bound applied to a focused number n: minimum fails exactly
\* when n < min, maximum exactly when n > max (a value equal to the bound
\* passes); exclusiveMinimum fails exactly when n <= min and exclusiveMaximum
\* exactly when n >= max (a value equal to the bound fails).
C12_NumericBounds ==
    \A kw \in NumericKeywords, b \in NumericBounds :
        (schema = NumericSchema(kw, b) /\ is_number(value) /\ diag.halted)
            => (is_failure(DiagReturned) = ViolatesBound(kw, value, b))

\* the number as the engine reads it
ReadAsF64(n) == [n EXCEPT !.x2 = RoundToF64(@)]

\* C12, as it holds: the comparisons of C12 are made between the number and
\* the bound after each is read as an f64, which rounds an integer from 2^53
\* on to the nearest f64; for numbers an f64 holds exactly that is C12.
C12_NumericBoundsAsF64 ==
    \A kw \in NumericKeywords, b \in NumericBounds :
        (schema = NumericSchema(kw, b) /\ is_number(value) /\ diag.halted)
            => (is_failure(DiagReturned) = ViolatesBound(kw, ReadAsF64(value), ReadAsF64(b)))

\* 2^53 + 1 read as an f64 is 2^53, equal to the bound of exclusiveMinimum
\* 2^53: the value fails
C12_Witness ==
    /\ schema = NumericSchema(S_exclusiveMinimum, JBigInt(0))
    /\ value = JBigInt(1)
    /\ diag.halted
    /\ diag.issues # <<>>

\* CheckProperty {key, required: false} is the next operation of an engine
\* in state st, and the focused object lacks key
MissingOptional(st) ==
    /\ st.ip < Len(compiled)
    /\ compiled[st.ip + 1].op = "CheckProperty"
    /\ ~compiled[st.ip + 1].required
    /\ LET obj == get_current_value(value, LeftProperty(st.context_stack))
       IN  /\ IsSome(obj)
           /\ is_object(Unwrap(obj))
           /\ ~ContainsKey(Unwrap(obj).entries, compiled[st.ip + 1].key)

OnlyName == JObj(<<<<K_name, JStr(<<"ab">>)>>>>)

\* C13: when CheckProperty {key, required: false} runs and the focused object
\* lacks key, no issue is recorded, none of the operations of the property's
\* sub-schema is executed, and validation goes on after them, in the
\* full-diagnostic engine and in the boolean engine; an object that misses
\* only optional properties validates successfully.
C13_MissingOptionalProperty ==
    /\ [][/\ (phase = "execute_compiled" /\ ~diag.halted /\ MissingOptional(diag))
               => /\ diag'.issues = diag.issues
                  /\ ~diag'.halted
                  /\ diag'.ip = PropertyEnd(compiled, diag.ip + 1, 0)
          /\ (phase = "execute_compiled_bool" /\ MissingOptional(fastb))
               => /\ fastb'.returned = None
                  /\ fastb'.ip = PropertyEnd(compiled, fastb.ip + 1, 0)]_vars
    /\ []((schema = TestSchema /\ value = OnlyName)
              => /\ diag.halted => is_success(DiagReturned)
                 /\ IsSome(fastb.returned) => Unwrap(fastb.returned))

\* {"name": "ab"} against the test schema: CheckProperty age (operation 4) ran,
\* the CheckType of age (operation 5) did not, and both engines accepted
C13_Witness ==
    /\ schema = TestSchema
    /\ value = OnlyName
    /\ fastb.returned = Some(TRUE)
    /\ is_success(DiagReturned)
    /\ \E i \in DOMAIN diag.executed : diag.executed[i] = 4
    /\ \A i \in DOMAIN diag.executed : diag.executed[i] # 5
    /\ \A i \in DOMAIN fastb.executed : fastb.executed[i] # 5

-----------------------------------------------------------------------------
(* Properties of compile_schema, checked under Spec on the compiled        *)
(* operations of every schema document                                     *)

Compiled == phase # "compile_schema"

\* the operations from position i on close the brackets of `open` (innermost
\* last) and their own in the right order: every Exit closes the innermost
\* open Enter of its kind, EnterArray is followed at once by CheckArrayItems,
\* CheckProperty has an object as innermost bracket, nothing stays open
RECURSIVE WellNested(_, _, _)
WellNested(ops, i, open) ==
    IF i > Len(ops) THEN open = <<>>
    ELSE
    LET o == ops[i].op
        innermost == IF open = <<>> THEN "none" ELSE open[Len(open)]
    IN  CASE o = "EnterObject" -> WellNested(ops, i + 1, Append(open, "Object"))
          [] o = "EnterArray" ->
                 /\ i < Len(ops)
                 /\ ops[i + 1].op = "CheckArrayItems"
                 /\ WellNested(ops, i + 1, Append(open, "Array"))
          [] o = "ExitObject" ->
                 innermost = "Object" /\ WellNested(ops, i + 1, Pop(open))
          [] o = "ExitArray" ->
                 innermost = "Array" /\ WellNested(ops, i + 1, Pop(open))
          [] o = "CheckProperty" ->
                 innermost = "Object" /\ WellNested(ops, i + 1, open)
          [] OTHER -> WellNested(ops, i + 1, open)

\* C14: for every schema document the operations of compile_schema are well
\* nested: every EnterObject has a matching later ExitObject, every EnterArray
\* is followed at once by CheckArrayItems and has a matching later ExitArray,
\* brackets never cross, and every CheckProperty lies directly inside an
\* EnterObject..ExitObject pair.
C14_WellNested == Compiled => WellNested(compiled, 1, <<>>)

\* an object in an object with an array in it has been compiled
C14_Witness ==
    /\ Compiled
    /\ schema \in DeepSchemas
    /\ \E i \in DOMAIN compiled : compiled[i].op = "ExitArray"

NoDone(ops) == \A i \in DOMAIN ops : ops[i].op # "Done"

\* C15: the operations of compile_schema contain exactly one Done and it is
\* the last operation; the recursive compilation of the document (and so of
\* every sub-schema, whose operations are a part of it) emits no Done.
C15_OneDoneLast ==
    Compiled =>
        /\ compiled # <<>>
        /\ compiled[Len(compiled)] = Done
        /\ NoDone(SubSeq(compiled, 1, Len(compiled) - 1))
        /\ NoDone(compile_schema_recursive(schema))

\* the schema of the object test has been compiled: operations before Done
C15_Witness ==
    /\ Compiled
    /\ schema = TestSchema
    /\ Len(compiled) > 1
    /\ compiled[Len(compiled)] = Done

\* the CheckProperty operations of `ops` whose only open bracket is an
\* EnterObject of `ops` itself: the ones at the nesting level of the node
RECURSIVE DirectProperties(_, _, _)
DirectProperties(ops, i, open) ==
    IF i > Len(ops) THEN <<>>
    ELSE
    LET o == ops[i].op
    IN  CASE o = "EnterObject" -> DirectProperties(ops, i + 1, Append(open, "Object"))
          [] o = "EnterArray" -> DirectProperties(ops, i + 1, Append(open, "Array"))
          [] o \in {"ExitObject", "ExitArray"} -> DirectProperties(ops, i + 1, Pop(open))
          [] o = "CheckProperty" /\ open = <<"Object">> ->
                 <<ops[i]>> \o DirectProperties(ops, i + 1, open)
          [] OTHER -> DirectProperties(ops, i + 1, open)

\* the properties a schema node declares, and the schema nodes of a document
Declared(node) ==
    IF is_object(node) /\ IsSome(MapGet(node.entries, S_properties))
       /\ is_object(Unwrap(MapGet(node.entries, S_properties)))
    THEN Unwrap(MapGet(node.entries, S_properties)).entries
    ELSE <<>>

RECURSIVE Nodes(_)
Nodes(node) ==
    {node}
    \cup UNION {Nodes(Declared(node)[i][2]) : i \in DOMAIN Declared(node)}
    \cup (IF is_object(node) /\ IsSome(MapGet(node.entries, S_items))
          THEN Nodes(Unwrap(MapGet(node.entries, S_items)))
          ELSE {})

\* key is a string member of the `required` array of the node
RequiredMember(node, key) ==
    LET got == MapGet(node.entries, S_required)
    IN  /\ IsSome(got)
        /\ is_array(Unwrap(got))
        /\ \E i \in DOMAIN Unwrap(got).items : Unwrap(got).items[i] = JStr(key)

PropertiesCompiled(node, ops) ==
    LET direct == DirectProperties(ops, 1, <<>>)
    IN  /\ Len(direct) = Len(Declared(node))
        /\ \A i \in DOMAIN direct :
              /\ direct[i].key = Declared(node)[i][1]
              /\ direct[i].required <=> RequiredMember(node, direct[i].key)

\* C16: a schema node with n declared properties compiles to exactly n
\* CheckProperty operations at the nesting level of that object, one per
\* declared key, and the required flag of each is true exactly when its key
\* is a string member of the `required` array of the same node.
C16_PropertiesCompiled ==
    Compiled =>
        /\ PropertiesCompiled(schema, compiled)
        /\ \A node \in Nodes(schema) :
              PropertiesCompiled(node, compile_schema_recursive(node))

\* compiled: `required` with a number, a declared name, an undeclared name
\* and an array in it, over a required and an optional property
C16_Witness ==
    /\ Compiled
    /\ schema = MixedRequired
    /\ \E i, j \in DOMAIN compiled :
          /\ compiled[i].op = "CheckProperty" /\ compiled[i].required
          /\ compiled[j].op = "CheckProperty" /\ ~compiled[j].required

\* the positions of the operations of `ops` at nesting depth d (an Exit has
\* the depth of its Enter), scanning from position i at depth `depth`
RECURSIVE IndicesAt(_, _, _, _)
IndicesAt(ops, i, depth, d) ==
    IF i > Len(ops) THEN <<>>
    ELSE
    LET o == ops[i].op
        at == IF o \in {"ExitObject", "ExitArray"} THEN depth - 1 ELSE depth
        next == IF o \in {"EnterObject", "EnterArray"} THEN depth + 1 ELSE at
    IN  (IF at = d THEN <<i>> ELSE <<>>) \o IndicesAt(ops, i + 1, next, d)

\* the place of an operation in the fixed order of a node
Rank(name) ==
    CASE name = "CheckType" -> 1
      [] name = "CheckMinimum" -> 2
      [] name = "CheckMaximum" -> 3
      [] name = "CheckExclusiveMinimum" -> 4
      [] name = "CheckExclusiveMaximum" -> 5
      [] name = "CheckMinLength" -> 6
      [] name = "CheckMaxLength" -> 7
      [] name = "EnterObject" -> 8
      [] name = "ExitObject" -> 9
      [] name = "CheckMinItems" -> 10
      [] name = "CheckMaxItems" -> 11
      [] name = "EnterArray" -> 12
      [] name = "ExitArray" -> 13
      [] OTHER -> 0

\* the keyword an operation of a node comes from, and whether the node has
\* the keyword with a value the compiler reads
KeywordOf(name) ==
    CASE name = "CheckType" -> S_type
      [] name = "CheckMinimum" -> S_minimum
      [] name = "CheckMaximum" -> S_maximum
      [] name = "CheckExclusiveMinimum" -> S_exclusiveMinimum
      [] name = "CheckExclusiveMaximum" -> S_exclusiveMaximum
      [] name = "CheckMinLength" -> S_minLength
      [] name = "CheckMaxLength" -> S_maxLength
      [] name \in {"EnterObject", "ExitObject"} -> S_properties
      [] name = "CheckMinItems" -> S_minItems
      [] name = "CheckMaxItems" -> S_maxItems
      [] name \in {"EnterArray", "ExitArray"} -> S_items

NodeOps ==
    {"CheckType", "CheckMinimum", "CheckMaximum", "CheckExclusiveMinimum",
     "CheckExclusiveMaximum", "CheckMinLength", "CheckMaxLength", "EnterObject",
     "ExitObject", "CheckMinItems", "CheckMaxItems", "EnterArray", "ExitArray"}

Present(node, name) ==
    /\ is_object(node)
    /\ LET got == MapGet(node.entries, KeywordOf(name))
       IN  /\ IsSome(got)
           /\ CASE name = "CheckType" ->
                      /\ is_string(Unwrap(got))
                      /\ Unwrap(got).s \in
                             {S_string, S_number, S_integer, S_boolean, S_null,
                              S_object, S_array}
                [] Rank(name) \in 2..5 -> is_number(Unwrap(got))
                [] Rank(name) \in {6, 7, 10, 11} ->
                      /\ is_number(Unwrap(got))
                      /\ ~Unwrap(got).float
                      /\ Unwrap(got).x2 >= 0
                [] Rank(name) \in {8, 9} -> is_object(Unwrap(got))
                [] OTHER -> TRUE

\* the operations of a node in the fixed order: the operations at depth 0
\* have increasing ranks, each is there exactly when its keyword is, the
\* object bracket holds per declared property CheckProperty and then the
\* operations of its sub-schema, the array bracket holds CheckArrayItems and
\* then the operations of the item schema
FixedOrder(node, ops) ==
    LET top == IndicesAt(ops, 1, 0, 0)
        At(name) == CHOOSE i \in DOMAIN ops :
                        (\E a \in DOMAIN top : top[a] = i) /\ ops[i].op = name
        object == SubSeq(ops, At("EnterObject") + 1, At("ExitObject") - 1)
        IsProperty(i) == object[i].op = "CheckProperty"
        props == SelectSeq(IndicesAt(object, 1, 0, 0), IsProperty)
        PropertyEnds(i) == IF i < Len(props) THEN props[i + 1] - 1 ELSE Len(object)
        array == SubSeq(ops, At("EnterArray") + 1, At("ExitArray") - 1)
    IN  /\ \A a \in DOMAIN top : ops[top[a]].op \in NodeOps
        /\ \A a, b \in DOMAIN top :
              a < b => Rank(ops[top[a]].op) < Rank(ops[top[b]].op)
        /\ \A name \in NodeOps :
              (\E a \in DOMAIN top : ops[top[a]].op = name) <=> Present(node, name)
        /\ Present(node, "EnterObject") =>
              /\ Len(props) = Len(Declared(node))
              /\ Len(props) = 0 => object = <<>>
              /\ Len(props) > 0 => props[1] = 1
              /\ \A i \in DOMAIN props :
                    /\ object[props[i]].key = Declared(node)[i][1]
                    /\ SubSeq(object, props[i] + 1, PropertyEnds(i))
                          = compile_schema_recursive(Declared(node)[i][2])
        /\ Present(node, "EnterArray") =>
              /\ array # <<>>
              /\ array[1] = CheckArrayItems
              /\ Tail(array) = compile_schema_recursive(Unwrap(MapGet(node.entries, S_items)))

\* C17: at each schema node the compiler emits its operations in the fixed
\* order CheckType; minimum, maximum, exclusiveMinimum, exclusiveMaximum;
\* minLength, maxLength; EnterObject, per property CheckProperty followed by
\* the compiled sub-schema, ExitObject; minItems, maxItems; EnterArray,
\* CheckArrayItems, the item sub-schema, ExitArray; each only if its keyword
\* is present, whatever the declared type.
C17_FixedOrder ==
    Compiled =>
        /\ FixedOrder(schema, SubSeq(compiled, 1, Len(compiled) - 1))
        /\ \A node \in Nodes(schema) : FixedOrder(node, compile_schema_recursive(node))

\* a node of type string with every keyword, written in the opposite order,
\* has been compiled to all thirteen kinds of operation of a node
C17_Witness ==
    /\ Compiled
    /\ schema = FullNodeReversed
    /\ \A name \in NodeOps : \E i \in DOMAIN compiled : compiled[i].op = name

\* an entry of a schema node that the compiler passes over: an unknown
\* keyword, a `type` that is no string or names no kind, a bound that is no
\* number
ConstraintKeywords ==
    {S_minimum, S_maximum, S_exclusiveMinimum, S_exclusiveMaximum,
     S_minLength, S_maxLength, S_minItems, S_maxItems}
KnownKeywords ==
    ConstraintKeywords \cup {S_type, S_properties, S_required, S_items}
TypeNames ==
    {S_string, S_number, S_integer, S_boolean, S_null, S_object, S_array}

PassedOver(entry) ==
    \/ entry[1] \notin KnownKeywords
    \/ entry[1] = S_type /\ ~is_string(entry[2])
    \/ entry[1] = S_type /\ is_string(entry[2]) /\ entry[2].s \notin TypeNames
    \/ entry[1] \in ConstraintKeywords /\ ~is_number(entry[2])

\* the node without the entries that are passed over
Strip(node) ==
    LET Kept(entry) == ~PassedOver(entry)
    IN  JObj(SelectSeq(node.entries, Kept))

AllAccepted ==
    /\ diag.halted /\ is_success(DiagReturned)
    /\ fastb.returned = Some(TRUE)
    /\ fastjs.returned = Some(TRUE)

\* C18: compile_schema returns operations for every parsed document: unknown
\* keywords, an unrecognized type name, a type that is no string and
\* constraint keywords whose value is no number emit no operation (the node
\* compiles as it does without them), a node that is no object emits no
\* operation, and a root that is no object compiles to just Done and accepts
\* every value under each compiled engine.
C18_NeverFails ==
    Compiled =>
        /\ \A node \in Nodes(schema) :
              IF is_object(node)
              THEN compile_schema_recursive(node) = compile_schema_recursive(Strip(node))
              ELSE compile_schema_recursive(node) = <<>>
        /\ compiled = compile_schema_recursive(schema) \o <<Done>>
        /\ ~is_object(schema) =>
              /\ compiled = <<Done>>
              /\ phase = "done" => AllAccepted

\* a root whose only entry is a type of an unknown name was compiled to just
\* Done and accepted a number
C18_Witness ==
    /\ phase = "done"
    /\ schema = JObj(<<<<S_type, JStr(<<"text">>)>>>>)
    /\ Strip(schema) = JObj(<<>>)
    /\ compiled = <<Done>>
    /\ value = JInt(1)
    /\ AllAccepted

\* a root that is no object accepted an object
C18_NonObjectRootWitness ==
    /\ phase = "done"
    /\ schema = JStr(S_string)
    /\ value = OnlyName
    /\ AllAccepted

-----------------------------------------------------------------------------
(* The walk of execute_compiled, checked under Spec *)

\* the value in focus of the full-diagnostic engine
Focus == get_current_value(value, diag.context_stack)

\* the check of the operation fails on the value v in focus (a string is
\* measured in characters)
FailsCheck(op, v) ==
    CASE op.op = "CheckType" -> ~check_type_tag(v, op.tag)
      [] op.op = "CheckMinimum" -> is_number(v) /\ RoundToF64(v.x2) < op.n
      [] op.op = "CheckMaximum" -> is_number(v) /\ RoundToF64(v.x2) > op.n
      [] op.op = "CheckExclusiveMinimum" -> is_number(v) /\ RoundToF64(v.x2) <= op.n
      [] op.op = "CheckExclusiveMaximum" -> is_number(v) /\ RoundToF64(v.x2) >= op.n
      [] op.op = "CheckMinLength" -> is_string(v) /\ CharCount(v.s) < op.n
      [] op.op = "CheckMaxLength" -> is_string(v) /\ CharCount(v.s) > op.n
      [] op.op = "CheckMinItems" -> is_array(v) /\ Len(v.items) < op.n
      [] op.op = "CheckMaxItems" -> is_array(v) /\ Len(v.items) > op.n
      [] op.op = "CheckProperty" ->
             is_object(v) /\ op.required /\ ~ContainsKey(v.entries, op.key)
      [] OTHER -> FALSE

\* the focus of a CheckProperty is the object: the key of the property left
\* behind is cleared first
ObjectFocus ==
    LET top == Len(diag.context_stack)
    IN  IF LastIs(diag.context_stack, "Object")
        THEN get_current_value(value, [diag.context_stack EXCEPT ![top].current_key = None])
        ELSE Focus

CheckFails ==
    /\ DiagRunning
    /\ LET v == IF DiagOp.op = "CheckProperty" THEN ObjectFocus ELSE Focus
       IN  IsSome(v) /\ FailsCheck(DiagOp, Unwrap(v))

IsPrefix(s, t) == Len(s) <= Len(t) /\ SubSeq(t, 1, Len(s)) = s

\* C20: the full-diagnostic engine never short-circuits: the walk ends only
\* at Done (or at the end of the operations), an issue once recorded stays
\* where it is in the list, and every failing check the walk reaches appends
\* its own issue and leaves the walk running; two properties that each fail
\* their type check give two issues in instruction order.
C20_NeverShortCircuits ==
    /\ [][phase = "execute_compiled" =>
             /\ IsPrefix(diag.issues, diag'.issues)
             /\ (diag'.halted /\ ~diag.halted) =>
                   (diag.ip >= Len(compiled) \/ DiagOp.op = "Done")
             /\ CheckFails =>
                   /\ Len(diag'.issues) = Len(diag.issues) + 1
                   /\ ~diag'.halted]_vars
    /\ []((schema = TestSchema /\ value = BothWrong /\ diag.halted) =>
             /\ Len(diag.issues) >= 2
             /\ diag.issues[1].path = Some(<<KeySegment(K_name)>>)
             /\ diag.issues[2].path = Some(<<KeySegment(K_age)>>))

\* {name: 1, age: "ab"} under the object schema of the tests: both type
\* checks ran and failed, the walk went on to Done, two issues
C20_Witness ==
    /\ schema = TestSchema
    /\ value = BothWrong
    /\ diag.halted
    /\ Len(diag.issues) = 2
    /\ compiled[diag.ip + 1] = Done

\* C21: execute_compiled returns Success(v), v the unmodified input with the
\* members the schema does not declare, exactly when the walk recorded no
\* issue, and otherwise Failure with the recorded issues; a Failure never
\* carries an empty issue list.
C21_ResultOfWalk ==
    /\ [][phase = "execute_compiled" /\ diag.issues # <<>>
             => diag'.issues # <<>>]_vars
    /\ [](diag.halted =>
             /\ is_success(DiagReturned) <=> diag.issues = <<>>
             /\ is_success(DiagReturned) => DiagReturned = Success(value)
             /\ is_failure(DiagReturned) =>
                   /\ DiagReturned.issues = diag.issues
                   /\ DiagReturned.issues # <<>>
                   /\ DiagReturned.value = None)

\* an object with a member `age` the schema does not declare was accepted
\* and returned with it
C21_Witness ==
    /\ diag.halted
    /\ Len(Declared(schema)) = 1
    /\ Declared(schema)[1][1] = K_name
    /\ value = JObj(<<<<K_name, JStr(<<"ab">>)>>, <<K_age, JInt(1)>>>>)
    /\ DiagReturned = Success(value)

ValueChecks == IssueOps \ {"CheckProperty"}

\* C23: each check is an independent predicate on the value in focus: a
\* check of type, range, length or size records one issue exactly when it
\* fails on that value (a range check on a value that is no number, a
\* length check on one that is no string, a size check on one that is no
\* array record none) and the walk goes on to the next operation, so a
\* failed type check does not suppress the other checks of the node: a
\* number that violates type: string and minimum gets both issues.
C23_IndependentChecks ==
    /\ [][(DiagRunning /\ DiagOp.op \in ValueChecks) =>
             /\ diag'.ip = diag.ip + 1
             /\ ~diag'.halted
             /\ diag'.context_stack = diag.context_stack
             /\ Len(diag'.issues) = Len(diag.issues) + (IF CheckFails THEN 1 ELSE 0)]_vars
    /\ []((schema = TypedBound /\ diag.halted) =>
             /\ HasIssue("Expected type {}, got {}", <<>>) <=> ~is_string(value)
             /\ HasIssue("Value {} is less than minimum {}", <<>>)
                   <=> (is_number(value) /\ value.x2 < 2)
             /\ HasIssue("String length {} is less than minimum {}", <<>>)
                   <=> (value = JStr(<<>>))
             /\ HasIssue("Array has {} items, minimum is {}", <<>>)
                   <=> (value = JArr(<<>>)))

\* 0 under {type: string, minimum: 1, minLength: 1, minItems: 1}: the issue
\* of the type and then the issue of the minimum, none of length or size
C23_Witness ==
    /\ schema = TypedBound
    /\ value = JInt(0)
    /\ diag.halted
    /\ Len(diag.issues) = 2
    /\ diag.issues[1].message.fmt = "Expected type {}, got {}"
    /\ diag.issues[2].message.fmt = "Value {} is less than minimum {}"

-----------------------------------------------------------------------------
(* The walk of execute_compiled_bool, checked under Spec *)

\* the operation execute_compiled_bool runs next
BoolRunning ==
    phase = "execute_compiled_bool" /\ fastb.returned = None /\ fastb.ip < Len(compiled)
BoolOp == compiled[fastb.ip + 1]

\* the check of the operation fails on the value v in focus of the boolean
\* engine, which measures a string in bytes
FailsCheckBool(op, v) ==
    CASE op.op = "CheckMinLength" -> is_string(v) /\ ByteLen(v.s) < op.n
      [] op.op = "CheckMaxLength" -> is_string(v) /\ ByteLen(v.s) > op.n
      [] OTHER -> FailsCheck(op, v)

BoolFocus ==
    LET top == Len(fastb.context_stack)
    IN  IF BoolOp.op = "CheckProperty" /\ LastIs(fastb.context_stack, "Object")
        THEN get_current_value(value, [fastb.context_stack EXCEPT ![top].current_key = None])
        ELSE get_current_value(value, fastb.context_stack)

BoolCheckFails ==
    BoolRunning /\ IsSome(BoolFocus) /\ FailsCheckBool(BoolOp, Unwrap(BoolFocus))

-----------------------------------------------------------------------------
(* Termination of the walks, checked under SpecLive *)

\* the length of the array that the Array frame at depth k of a context stack
\* iterates (0 when the value there is not an array)
ArrayLenAt(root, context_stack, k) ==
    ParentArrayLen(root, SubSeq(context_stack, 1, k))

\* every Array frame has taken at most length-1 backward jumps: its index,
\* which counts them, is 0 or below the length of its array
IndicesInRange(root, context_stack) ==
    \A k \in DOMAIN context_stack :
        context_stack[k].ctx = "Array" =>
            \/ context_stack[k].current_index = 0
            \/ context_stack[k].current_index < ArrayLenAt(root, context_stack, k)

\* one loop iteration from st to nx moves the indices of the Array frames only
\* by a backward jump: EnterArray pushes a frame with index 0, a step that
\* does not go forward is an ExitArray that adds one to the index of the top
\* frame, still below the length, and lands on the CheckArrayItems after
\* the EnterArray of that frame; every other frame keeps its index
CountedJumps(ops, root, st, nx, ended) ==
    LET top == Len(st.context_stack)
    IN  /\ ops[st.ip + 1].op = "EnterArray" =>
               /\ nx.context_stack = Append(st.context_stack, ArrayCtx(0, st.ip + 1))
               /\ ops[st.ip + 2].op = "CheckArrayItems"
        /\ (~ended /\ nx.ip <= st.ip) =>
               /\ ops[st.ip + 1].op = "ExitArray"
               /\ LastIs(st.context_stack, "Array")
               /\ nx.context_stack =
                      [st.context_stack EXCEPT ![top].current_index = @ + 1]
               /\ nx.context_stack[top].current_index
                      <= ArrayLenAt(root, st.context_stack, top) - 1
               /\ nx.ip = st.context_stack[top].items_ops_start
               /\ ops[nx.ip + 1].op = "CheckArrayItems"
               /\ ops[nx.ip].op = "EnterArray"
        /\ (ended \/ nx.ip > st.ip) =>
               \A k \in DOMAIN st.context_stack \cap DOMAIN nx.context_stack :
                   nx.context_stack[k].ctx = "Array" /\ st.context_stack[k].ctx = "Array"
                       => nx.context_stack[k].current_index
                              = st.context_stack[k].current_index

\* C28: for every schema document and every value both walks terminate, by
\* reaching Done (execute_compiled_bool unless it has returned false at a
\* failed check, which ends its walk there); the instruction pointer never
\* leaves the sequence, and an array visit takes at most length-1 backward
\* jumps at ExitArray
C28_Terminates ==
    /\ <>diag.halted
    /\ <>IsSome(fastb.returned)
    /\ [](phase # "compile_schema" =>
             /\ diag.ip < Len(compiled) /\ fastb.ip < Len(compiled)
             /\ diag.halted => compiled[diag.ip + 1].op = "Done"
             /\ fastb.returned = Some(TRUE) => compiled[fastb.ip + 1].op = "Done"
             /\ fastb.returned = Some(FALSE) =>
                    compiled[fastb.ip + 1].op \in IssueOps
             /\ IndicesInRange(value, diag.context_stack)
             /\ IndicesInRange(value, fastb.context_stack))
    /\ [][/\ DiagRunning => CountedJumps(compiled, value, diag, diag', diag'.halted)
          /\ BoolRunning =>
                 CountedJumps(compiled, value, fastb, fastb', IsSome(fastb'.returned))]_vars

\* both walks have ended at Done after backward jumps over an array of two
\* elements nested in an array
C28_Witness ==
    /\ phase = "done"
    /\ compiled[diag.ip + 1].op = "Done" /\ fastb.returned = Some(TRUE)
    /\ \E i \in DOMAIN diag.executed :
           /\ i < Len(diag.executed)
           /\ compiled[diag.executed[i] + 1].op = "ExitArray"
           /\ diag.executed[i + 1] < diag.executed[i]
    /\ \E i \in DOMAIN fastb.executed :
           /\ i < Len(fastb.executed)
           /\ compiled[fastb.executed[i] + 1].op = "ExitArray"
           /\ fastb.executed[i + 1] < fastb.executed[i]

-----------------------------------------------------------------------------
(* Array iteration and the Skip rule, checked under Spec *)

\* the Exit operation that closes the bracket open at ip, `depth` brackets deep
RECURSIVE ClosingExit(_, _, _)
ClosingExit(ops, ip, depth) ==
    IF ip >= Len(ops) THEN ip
    ELSE
    LET o == ops[ip + 1].op
    IN  IF o \in {"EnterObject", "EnterArray"} THEN ClosingExit(ops, ip + 1, depth + 1)
        ELSE IF o \in {"ExitObject", "ExitArray"}
             THEN IF depth = 1 THEN ip ELSE ClosingExit(ops, ip + 1, depth - 1)
        ELSE ClosingExit(ops, ip + 1, depth)

\* how often the operation at ip was executed since the operation at `from`
\* was executed last
CountSince(executed, from, ip) ==
    LET start == CHOOSE k \in DOMAIN executed :
                     /\ executed[k] = from
                     /\ \A j \in DOMAIN executed : j > k => executed[j] # from
    IN  Cardinality({j \in DOMAIN executed : j > start /\ executed[j] = ip})

\* One loop iteration from st to nx of an engine walking ops over root, for
\* the array operations. With e the EnterArray of the array, c = e + 1 its
\* CheckArrayItems, x its ExitArray, n the length of the array in focus when
\* the frame was pushed (0 for a value that is not an array) and i the index
\* of the frame:
\*  - EnterArray goes on to c with index 0;
\*  - CheckArrayItems with i < n is the (i+1)-th of this visit, and goes on
\*    into the window with element i in focus; with n = 0 it goes to x, no
\*    operation of the window is executed;
\*  - ExitArray with i + 1 < n adds one to the index and goes back to c;
\*    otherwise the index is n - 1 (or n = 0), the window was entered n times
\*    in this visit, the frame is popped and the walk goes on after x.
ArrayStep(ops, root, st, nx) ==
    LET op == ops[st.ip + 1].op
        top == Len(st.context_stack)
        frame == st.context_stack[top]
        arr == get_current_value(root, Pop(st.context_stack))
        n == IF IsSome(arr) /\ is_array(Unwrap(arr)) THEN Len(Unwrap(arr).items) ELSE 0
        i == frame.current_index
        c == frame.items_ops_start
        x == ClosingExit(ops, c, 1)
    IN  /\ op = "EnterArray" =>
               /\ nx.ip = st.ip + 1
               /\ ops[nx.ip + 1].op = "CheckArrayItems"
               /\ nx.context_stack = Append(st.context_stack, ArrayCtx(0, nx.ip))
        /\ op \in {"CheckArrayItems", "ExitArray"} => LastIs(st.context_stack, "Array")
        /\ op = "CheckArrayItems" =>
               /\ c = st.ip
               /\ nx.context_stack = st.context_stack
               /\ ops[x + 1].op = "ExitArray"
               /\ i < n =>
                      /\ nx.ip = c + 1
                      /\ get_current_value(root, nx.context_stack)
                             = Some(Unwrap(arr).items[i + 1])
                      /\ CountSince(nx.executed, c - 1, c) = i + 1
               /\ i >= n =>
                      /\ n = 0 /\ i = 0
                      /\ nx.ip = x
                      /\ CountSince(nx.executed, c - 1, c) = 1
        /\ op = "ExitArray" =>
               /\ x = st.ip
               /\ ops[c + 1].op = "CheckArrayItems" /\ ops[c].op = "EnterArray"
               /\ i + 1 < n =>
                      /\ nx.ip = c
                      /\ nx.context_stack =
                             [st.context_stack EXCEPT ![top].current_index = i + 1]
               /\ i + 1 >= n =>
                      /\ i = IF n = 0 THEN 0 ELSE n - 1
                      /\ CountSince(nx.executed, c - 1, c) = IF n = 0 THEN 1 ELSE n
                      /\ \A w \in (c + 1)..(x - 1) :
                             ops[w + 1].op \notin {"ExitObject", "ExitArray"} =>
                                 (n = 0 => CountSince(nx.executed, c - 1, w) = 0)
                      /\ x > c + 1 => CountSince(nx.executed, c - 1, c + 1) = n
                      /\ nx.context_stack = Pop(st.context_stack)
                      /\ nx.ip = x + 1

\* C29: an array of length n in focus at an EnterArray has its item window
\* executed exactly n times, for the indices 0..n-1 in ascending order, each
\* with its element in focus; ExitArray adds one to the index and goes back
\* to the CheckArrayItems after the EnterArray while the index is below n,
\* then pops the frame and goes on after ExitArray; an empty array executes
\* no operation of the window. Both engines (execute_compiled_bool for as
\* long as it has not returned).
C29_ArrayIteration ==
    [][/\ DiagRunning => ArrayStep(compiled, value, diag, diag')
       /\ BoolRunning => ArrayStep(compiled, value, fastb, fastb')]_vars

\* execute_compiled has walked the arrays [1, "\u00e9"] and [1] inside an
\* array, three executions of the item window in two visits, and
\* execute_compiled_bool has returned false in its second execution
C29_Witness ==
    /\ phase = "done"
    /\ value = JArr(<<JArr(<<JInt(1), E_ACUTE>>), JArr(<<JInt(1)>>)>>)
    /\ fastb.returned = Some(FALSE)
    /\ \E e \in DOMAIN compiled :
           /\ compiled[e].op = "EnterArray" /\ e > 2
           /\ compiled[e + 2].op = "CheckType"
           /\ Cardinality({k \in DOMAIN diag.executed : diag.executed[k] = e - 1}) = 2
           /\ Cardinality({k \in DOMAIN diag.executed : diag.executed[k] = e + 1}) = 3
           /\ Cardinality({k \in DOMAIN fastb.executed : fastb.executed[k] = e + 1}) = 2

\* the brackets of ops open when the operation at ip is about to run (an
\* Exit operation finds its own bracket open), the innermost of them, and the
\* Enter operation that the Exit operation at ip closes
Openers(ops, ip) ==
    {e \in 0..(ip - 1) :
        /\ ops[e + 1].op \in {"EnterObject", "EnterArray"}
        /\ ClosingExit(ops, e + 1, 1) >= ip}
Enclosing(ops, ip) ==
    CHOOSE e \in Openers(ops, ip) : \A f \in Openers(ops, ip) : f <= e
Opener(ops, ip) ==
    CHOOSE e \in 0..(ip - 1) :
        /\ ops[e + 1].op \in {"EnterObject", "EnterArray"}
        /\ ClosingExit(ops, e + 1, 1) = ip

\* the CheckProperty operations of the object that the EnterObject at e opens:
\* the ones of which e is the innermost open bracket
Siblings(ops, e) ==
    {q \in (e + 1)..(Len(ops) - 1) :
        /\ ops[q + 1].op = "CheckProperty"
        /\ Openers(ops, q) # {}
        /\ Enclosing(ops, q) = e}

\* the next sibling CheckProperty after the one at ip, or the ExitObject of
\* their object after the last one
NextSibling(ops, ip) ==
    LET e == Enclosing(ops, ip)
        later == {q \in Siblings(ops, e) : q > ip}
    IN  IF later = {} THEN ClosingExit(ops, e + 1, 1)
        ELSE CHOOSE q \in later : \A r \in later : q <= r

\* the operation at the ip of st is a CheckProperty and the object in focus
\* lacks its key
AbsentProperty(ops, root, st) ==
    /\ ops[st.ip + 1].op = "CheckProperty"
    /\ LET obj == get_current_value(root, LeftProperty(st.context_stack))
       IN  /\ IsSome(obj)
           /\ is_object(Unwrap(obj))
           /\ ~ContainsKey(Unwrap(obj).entries, ops[st.ip + 1].key)

\* One loop iteration from st to nx that does not return:
\*  - it executes the operation at the ip of st;
\*  - after the CheckProperty of an absent property the ip is at the next
\*    sibling CheckProperty, or at the ExitObject of the object after the
\*    last property, so that this operation is the next one executed;
\*  - when ExitObject ends the visit of an object, each CheckProperty of the
\*    object has been executed exactly once since its EnterObject.
SkipStep(ops, root, st, nx) ==
    LET op == ops[st.ip + 1]
    IN  /\ nx.executed = Append(st.executed, st.ip)
        /\ AbsentProperty(ops, root, st) =>
               /\ nx.ip = NextSibling(ops, st.ip)
               /\ ops[nx.ip + 1].op \in {"CheckProperty", "ExitObject"}
               /\ nx.context_stack = LeftProperty(st.context_stack)
        /\ op.op = "ExitObject" =>
               /\ ops[Opener(ops, st.ip) + 1].op = "EnterObject"
               /\ \A q \in Siblings(ops, Opener(ops, st.ip)) :
                      CountSince(nx.executed, Opener(ops, st.ip), q) = 1

\* C30: after the Skip rule for an absent property the next operation
\* executed is the next sibling CheckProperty of the same object, or the
\* ExitObject of that object after the last property, whatever is nested in
\* the sub-schema skipped; that operation is executed, so that one visit of
\* an object executes each of its CheckProperty operations exactly once, and
\* execute_compiled records one "missing required property" issue for each
\* absent required property, consecutive ones included. Both engines
\* (execute_compiled_bool for as long as it has not returned).
C30_SkipLandsOnSibling ==
    [][/\ (DiagRunning /\ ~diag'.halted) => SkipStep(compiled, value, diag, diag')
       /\ (BoolRunning /\ ~IsSome(fastb'.returned)) =>
              SkipStep(compiled, value, fastb, fastb')
       /\ (DiagRunning /\ AbsentProperty(compiled, value, diag) /\ DiagOp.required) =>
              /\ Len(diag'.issues) = Len(diag.issues) + 1
              /\ SubSeq(diag'.issues, 1, Len(diag.issues)) = diag.issues
              /\ diag'.issues[Len(diag'.issues)].message =
                     Message("Missing required property '{}'", <<DiagOp.key>>, <<>>)]_vars

\* {name: {}} under {name: {name: [integer], age: integer, required: [name,
\* age]}, required: [name]}: the skip over the array schema of the inner name
\* has landed on CheckProperty age, the skip of age on ExitObject, and both
\* missing properties are reported
C30_Witness ==
    /\ phase = "done"
    /\ schema \in DeepSchemas
    /\ value = JObj(<<<<K_name, JObj(<<>>)>>>>)
    /\ Len(diag.issues) = 2
    /\ diag.issues[1].message = Message("Missing required property '{}'", <<K_name>>, <<>>)
    /\ diag.issues[2].message = Message("Missing required property '{}'", <<K_age>>, <<>>)
    /\ \E k \in DOMAIN diag.executed :
           /\ k + 2 <= Len(diag.executed)
           /\ compiled[diag.executed[k] + 1] = CheckProperty(K_name, TRUE)
           /\ compiled[diag.executed[k] + 3].op = "EnterArray"
           /\ compiled[diag.executed[k + 1] + 1] = CheckProperty(K_age, TRUE)
           /\ diag.executed[k + 1] > diag.executed[k] + 3
           /\ compiled[diag.executed[k + 2] + 1].op = "ExitObject"

\* One loop iteration from st to nx that does not return, seen at the
\* instruction pointer:
\*  - the pointer stays inside the sequence and moves;
\*  - it moves backward only at an ExitArray, and then to the CheckArrayItems
\*    that follows the EnterArray of the array this ExitArray closes;
\*  - it moves forward by more than one only in a skip (at CheckProperty or
\*    at CheckArrayItems), and then not past the Exit operation that closes
\*    the innermost bracket open at the operation;
\*  - every other operation moves it forward by one.
IpMove(ops, st, nx) ==
    LET p == st.ip
        op == ops[p + 1].op
    IN  /\ nx.ip # p /\ nx.ip < Len(ops)
        /\ nx.ip < p =>
               /\ op = "ExitArray"
               /\ ops[nx.ip + 1].op = "CheckArrayItems"
               /\ ops[nx.ip].op = "EnterArray"
               /\ ClosingExit(ops, nx.ip, 1) = p
        /\ nx.ip > p + 1 =>
               /\ op \in {"CheckProperty", "CheckArrayItems"}
               /\ nx.ip <= ClosingExit(ops, Enclosing(ops, p) + 1, 1)
        /\ op \notin {"ExitArray", "CheckProperty", "CheckArrayItems"} => nx.ip = p + 1

\* items remain for the Array frame on top of the context stack
ItemsRemain(root, context_stack) ==
    /\ LastIs(context_stack, "Array")
    /\ context_stack[Len(context_stack)].current_index + 1
           < ParentArrayLen(root, context_stack)

\* C31: during a walk the instruction pointer moves strictly forward after
\* every operation, except at ExitArray with items remaining, where it moves
\* back to the CheckArrayItems of the same array; a skip moves it forward and
\* never past the end of the enclosing object or array. All three engines;
\* "items remaining" is compared with the array length for execute_compiled
\* and execute_compiled_bool, which resolve it from the root.
C31_PointerMoves ==
    [][/\ (DiagRunning /\ ~diag'.halted) =>
              /\ IpMove(compiled, diag, diag')
              /\ diag'.ip < diag.ip <=>
                     (DiagOp.op = "ExitArray" /\ ItemsRemain(value, diag.context_stack))
       /\ (BoolRunning /\ ~IsSome(fastb'.returned)) =>
              /\ IpMove(compiled, fastb, fastb')
              /\ fastb'.ip < fastb.ip <=>
                     (BoolOp.op = "ExitArray" /\ ItemsRemain(value, fastb.context_stack))
       /\ (phase = "execute_compiled_fast" /\ fastjs.returned = None
              /\ ~IsSome(fastjs'.returned)) =>
              IpMove(compiled, fastjs, fastjs')]_vars

\* execute_compiled has gone back at an ExitArray, and has skipped forward
\* over the sub-schema of an absent property onto the next CheckProperty
C31_Witness ==
    /\ phase = "done"
    /\ \E k \in DOMAIN diag.executed :
           /\ k < Len(diag.executed)
           /\ compiled[diag.executed[k] + 1].op = "ExitArray"
           /\ diag.executed[k + 1] < diag.executed[k]
    /\ \E k \in DOMAIN diag.executed :
           /\ k < Len(diag.executed)
           /\ compiled[diag.executed[k] + 1].op = "CheckProperty"
           /\ diag.executed[k + 1] > diag.executed[k] + 1
           /\ compiled[diag.executed[k + 1] + 1].op = "CheckProperty"

\* the context stack of an engine about to execute the operation at ip has
\* one frame for each bracket of ops open there, and the frame on top is of
\* the kind of the innermost one
Mirrors(ops, ip, context_stack) ==
    /\ Len(context_stack) = Cardinality(Openers(ops, ip))
    /\ context_stack # <<>> =>
           context_stack[Len(context_stack)].ctx =
               (IF ops[Enclosing(ops, ip) + 1].op = "EnterObject" THEN "Object" ELSE "Array")

\* the value an engine resolves when it executes the operation at ip:
\* get_current_value of the context stack, of the stack without its top frame
\* at CheckArrayItems and ExitArray (parent_ctx), of the stack with the
\* previous property left at CheckProperty
Resolved(ops, ip, root, context_stack) ==
    LET op == ops[ip + 1].op
    IN  CASE op \in {"CheckArrayItems", "ExitArray"} ->
                 get_current_value(root, Pop(context_stack))
          [] op = "CheckProperty" -> get_current_value(root, LeftProperty(context_stack))
          [] OTHER -> get_current_value(root, context_stack)

FailsLength(op, chars) ==
    IF op.op = "CheckMinLength" THEN CharCount(chars) < op.n ELSE CharCount(chars) > op.n

LengthOps == {"CheckMinLength", "CheckMaxLength"}

\* execute_compiled_fast is about to run the operation FastOp
FastRunning ==
    /\ phase = "execute_compiled_fast" /\ fastjs.returned = None
    /\ fastjs.ip < Len(compiled) /\ fastjs.value_stack # <<>>
FastOp == compiled[fastjs.ip + 1]

\* C33: in every engine a string in focus fails CheckMinLength(min) exactly
\* when its number of characters is below min, and CheckMaxLength(max)
\* exactly when it is above max, whatever its length in bytes:
\* execute_compiled records an issue, execute_compiled_bool and
\* execute_compiled_fast return false, in these cases and in no other
C33_LengthInCharacters ==
    [][/\ (DiagRunning /\ DiagOp.op \in LengthOps /\ IsSome(Focus)
              /\ is_string(Unwrap(Focus))) =>
              (Len(diag'.issues) = Len(diag.issues) + 1
                   <=> FailsLength(DiagOp, Unwrap(Focus).s))
       /\ (BoolRunning /\ BoolOp.op \in LengthOps /\ IsSome(BoolFocus)
              /\ is_string(Unwrap(BoolFocus))) =>
              (fastb'.returned = Some(FALSE)
                   <=> FailsLength(BoolOp, Unwrap(BoolFocus).s))
       /\ (FastRunning /\ FastOp.op \in LengthOps
              /\ IsSome(JsAsString(Unwrap(Last(fastjs.value_stack))))) =>
              (fastjs'.returned = Some(FALSE)
                   <=> FailsLength(FastOp, Unwrap(JsAsString(Unwrap(Last(fastjs.value_stack))))))]_vars

\* the JS value that a context stack leads to from the JS value js: the
\* member of the current key of an Object frame, the element at the index of
\* an Array frame; a frame without key, or whose member or element does not
\* exist, stays at the value
RECURSIVE JsFocus(_, _)
JsFocus(js, context_stack) ==
    IF context_stack = <<>> THEN js
    ELSE
    LET ctx == Head(context_stack)
        rest == Tail(context_stack)
    IN  IF ctx.ctx = "Object"
        THEN IF IsSome(ctx.current_key) /\ js.js = "object"
                /\ IsSome(MapGet(js.entries, Unwrap(ctx.current_key)))
             THEN JsFocus(Unwrap(MapGet(js.entries, Unwrap(ctx.current_key))), rest)
             ELSE JsFocus(js, rest)
        ELSE IF js.js = "array" /\ ctx.current_index < Len(js.items)
             THEN JsFocus(js.items[ctx.current_index + 1], rest)
             ELSE JsFocus(js, rest)

\* One loop iteration of execute_compiled_fast from st to nx that does not
\* return, over the JS value root:
\*  - a value check runs with the top of the value stack the value that the
\*    context stack leads to;
\*  - CheckProperty of a member the object in focus has leaves the member on
\*    top; CheckArrayItems with an element at the index leaves that element
\*    on top and goes on into the window;
\*  - ExitObject, and the ExitArray that pops the frame, leave on top the
\*    value enclosing the object or the array; the ExitArray of an array with
\*    elements left goes back to CheckArrayItems for the next one.
ValueStackStep(ops, root, st, nx) ==
    LET op == ops[st.ip + 1]
        top == Len(st.context_stack)
        enclosing == JsFocus(root, Pop(st.context_stack))
        object == JsFocus(root, LeftProperty(st.context_stack))
        i == st.context_stack[top].current_index
    IN  /\ op.op \in ValueChecks =>
               Last(st.value_stack) = Some(JsFocus(root, st.context_stack))
        /\ (op.op = "CheckProperty" /\ object.js = "object"
               /\ IsSome(MapGet(object.entries, op.key))) =>
               Last(nx.value_stack) = MapGet(object.entries, op.key)
        /\ (op.op = "CheckArrayItems" /\ enclosing.js = "array"
               /\ i < Len(enclosing.items)) =>
               /\ Last(nx.value_stack) = Some(enclosing.items[i + 1])
               /\ nx.ip = st.ip + 1
        /\ op.op = "ExitObject" => Last(nx.value_stack) = Some(enclosing)
        /\ op.op = "ExitArray" =>
               IF enclosing.js = "array" /\ i + 1 < Len(enclosing.items)
               THEN /\ nx.ip = st.context_stack[top].items_ops_start
                    /\ nx.context_stack =
                           [st.context_stack EXCEPT ![top].current_index = i + 1]
               ELSE /\ nx.context_stack = Pop(st.context_stack)
                    /\ Last(nx.value_stack) = Some(enclosing)

\* C35: in execute_compiled_fast the value stack moves with the context
\* stack so that its top is the value in focus: the member after a property
\* is entered, the element after an array item is entered, the enclosing
\* value again after ExitObject and after the last ExitArray of an array, and
\* the item window is run against every element of the array
C35_ValueStackInFocus ==
    [][(FastRunning /\ ~IsSome(fastjs'.returned)) =>
          ValueStackStep(compiled, ToJs(value), fastjs, fastjs')]_vars

\* the CheckProperty whose sub-schema the operation at ip belongs to: the
\* last CheckProperty before ip of the object that encloses ip
OwnerProperty(ops, ip) ==
    LET e == Enclosing(ops, ip)
        before == {q \in Siblings(ops, e) : q < ip}
    IN  CHOOSE q \in before : \A r \in before : r <= q

\* the operation at ip belongs to the sub-schema of a property
InSubSchema(ops, ip) ==
    /\ Openers(ops, ip) # {}
    /\ ops[Enclosing(ops, ip) + 1].op = "EnterObject"
    /\ ops[ip + 1].op \notin {"CheckProperty", "ExitObject"}

\* One loop iteration of an engine over root, from the state st to nx:
\*  - an operation of the sub-schema of a property runs with the value of
\*    that property in focus: the object has the property, the frame of the
\*    object holds its key;
\*  - a CheckProperty with a value in focus that is not an object goes on at
\*    the next sibling CheckProperty or at ExitObject: the sub-schema is
\*    bypassed.
PropertyFocusStep(ops, root, st, nx) ==
    LET top == Len(st.context_stack)
        object == get_current_value(root, LeftProperty(st.context_stack))
    IN  /\ InSubSchema(ops, st.ip) =>
               /\ LastIs(st.context_stack, "Object")
               /\ st.context_stack[top].current_key
                      = Some(ops[OwnerProperty(ops, st.ip) + 1].key)
               /\ IsSome(object) /\ is_object(Unwrap(object))
               /\ get_current_value(root, st.context_stack)
                      = MapGet(Unwrap(object).entries,
                               ops[OwnerProperty(ops, st.ip) + 1].key)
        /\ (ops[st.ip + 1].op = "CheckProperty"
               /\ IsSome(object) /\ ~is_object(Unwrap(object))) =>
               nx.ip = NextSibling(ops, st.ip)

\* a schema document with the keywords properties and required only
OnlyProperties(node) ==
    /\ is_object(node)
    /\ ContainsKey(node.entries, S_properties)
    /\ \A i \in DOMAIN node.entries : node.entries[i][1] \in {S_properties, S_required}

\* C36: in execute_compiled and execute_compiled_bool the operations of a
\* property's sub-schema run only with the value of that property in focus;
\* at a value that is not an object they are bypassed, never applied to the
\* enclosing value, so that a schema with properties and no type yields no
\* issue (and true) for an input that is not an object
C36_SubSchemaOnPropertyOnly ==
    /\ [][/\ DiagRunning => PropertyFocusStep(compiled, value, diag, diag')
          /\ BoolRunning => PropertyFocusStep(compiled, value, fastb, fastb')]_vars
    /\ []((OnlyProperties(schema) /\ ~is_object(value)) =>
             /\ diag.issues = <<>>
             /\ fastb.returned # Some(FALSE))

\* the names listed in the required array of a schema node that the object
\* v lacks
MissingNames(node, v) ==
    LET required == MapGet(node.entries, S_required)
    IN  IF IsSome(required) /\ is_array(Unwrap(required))
        THEN {Unwrap(required).items[i].s : i \in
                 {j \in DOMAIN Unwrap(required).items :
                     /\ is_string(Unwrap(required).items[j])
                     /\ ~ContainsKey(v.entries, Unwrap(required).items[j].s)}}
        ELSE {}

\* C37: when the value is an object that lacks a name listed in the required
\* array of the schema node, validation fails, also when the name is not
\* declared under properties or the node has no properties: execute_compiled
\* returns issues, execute_compiled_bool returns false and the interpreted
\* validator fails
C37_RequiredWithoutProperties ==
    (phase = "done" /\ is_object(schema) /\ is_object(value)
        /\ MissingNames(schema, value) # {}) =>
        /\ diag.issues # <<>>
        /\ fastb.returned = Some(FALSE)
        /\ is_failure(Unwrap(interp))

\* the value at the array position of the innermost frame is not an array,
\* or is an empty array
NoItems(root, context_stack) ==
    LET arr == get_current_value(root, Pop(context_stack))
    IN  \/ arr = None
        \/ ~is_array(Unwrap(arr))
        \/ Unwrap(arr).items = <<>>

\* One loop iteration from st to nx at an array position without items:
\* CheckArrayItems goes to the ExitArray of its own array and leaves the
\* frame in place; that ExitArray runs right after the CheckArrayItems, pops
\* the frame and goes on with the operation after it.
EmptyArrayStep(ops, root, st, nx) ==
    LET op == ops[st.ip + 1].op
        top == Len(st.context_stack)
        x == ClosingExit(ops, st.ip + 1, 1)
    IN  (/\ op \in {"CheckArrayItems", "ExitArray"}
         /\ LastIs(st.context_stack, "Array")
         /\ NoItems(root, st.context_stack)) =>
            /\ op = "CheckArrayItems" =>
                   /\ st.context_stack[top].items_ops_start = st.ip
                   /\ ops[x + 1].op = "ExitArray"
                   /\ nx.ip = x
                   /\ nx.executed = Append(st.executed, st.ip)
                   /\ nx.context_stack = st.context_stack
            /\ op = "ExitArray" =>
                   /\ st.executed[Len(st.executed)] = st.context_stack[top].items_ops_start
                   /\ ClosingExit(ops, st.context_stack[top].items_ops_start + 1, 1) = st.ip
                   /\ nx.executed = Append(st.executed, st.ip)
                   /\ nx.context_stack = Pop(st.context_stack)
                   /\ nx.ip = st.ip + 1

\* C38: when the value at an array position is not an array, or is an empty
\* array, CheckArrayItems jumps to the ExitArray of the same array, also
\* across arrays nested in the item schema: no operation of the item
\* sub-schema is executed, no issue is added, the frame is popped by that
\* ExitArray and the walk goes on after it. Both engines
\* (execute_compiled_bool for as long as it has not returned).
C38_EmptyArraySkipsItems ==
    [][/\ DiagRunning =>
              /\ EmptyArrayStep(compiled, value, diag, diag')
              /\ (/\ compiled[diag.ip + 1].op \in {"CheckArrayItems", "ExitArray"}
                  /\ LastIs(diag.context_stack, "Array")
                  /\ NoItems(value, diag.context_stack)) =>
                     /\ diag'.issues = diag.issues
                     /\ diag'.path_stack = diag.path_stack
       /\ BoolRunning => EmptyArrayStep(compiled, value, fastb, fastb')]_vars

\* both engines have skipped, on an empty array and without a type keyword,
\* an item schema that holds an array of its own: the CheckArrayItems of the
\* outer array is followed by its ExitArray, past the inner ExitArray
C38_Witness ==
    /\ phase = "done"
    /\ value = JArr(<<>>)
    /\ diag.issues = <<>>
    /\ fastb.returned = Some(TRUE)
    /\ \E c \in DOMAIN diag.executed, x \in DOMAIN compiled :
           /\ compiled[diag.executed[c] + 1].op = "CheckArrayItems"
           /\ c < Len(diag.executed)
           /\ diag.executed[c + 1] = x - 1
           /\ compiled[x].op = "ExitArray"
           /\ \E w \in (diag.executed[c] + 2)..(x - 1) : compiled[w].op = "ExitArray"
           /\ c + 1 < Len(fastb.executed)
           /\ fastb.executed[c] = diag.executed[c]
           /\ fastb.executed[c + 1] = x - 1
           /\ fastb.executed[c + 2] = x

-----------------------------------------------------------------------------
(* Properties of the registry, checked under SpecRegistry *)

\* the names with a successful register not followed by an unregister
Current == {n \in Names : IsSome(registered[n].doc)}

Lookups == {"validate", "validateFast", "jsonSchema"}

\* C6: validate, validateFast and jsonSchema called with a name that is not
\* currently registered (never registered, or unregistered since) return the
\* "not found" error and no result.
C6_UnknownNameNotFound ==
    (call.op \in Lookups /\ call.name \notin Current)
        => (~call.ok /\ call.err = NotFound /\ call.ret = <<>>)

\* jsonSchema failed with "not found" for a name that was registered and has
\* been unregistered since, while the other name is registered
C6_Witness ==
    /\ call.op = "jsonSchema"
    /\ registered[call.name].unregistered
    /\ Current # {}
    /\ call.err = NotFound

\* what the three lookups return for a registry that holds only `doc` under
\* the name: the outcome of the call's argument against that document
AnswerFrom(doc, c) ==
    CASE c.op = "validate" ->
             ResultToJs(execute_compiled(Unwrap(from_value(c.arg[1])), compile_schema(doc)))
      [] c.op = "validateFast" ->
             execute_compiled_bool(Unwrap(from_value(c.arg[1])), compile_schema(doc))
      [] c.op = "jsonSchema" ->
             ToJs(JsonSchemaDocument(doc, Unwrap(parse_target(c.arg[1]))))

\* C7: after register(name, A) and then register(name, B), the entry of the
\* name is B's document with B's compiled operations, and validate,
\* validateFast and jsonSchema answer from B only: nothing of A remains.
C7_ReRegisterReplaces ==
    /\ \A n \in Current :
           /\ n \in DOMAIN registry
           /\ registry[n] =
                  RegisteredSchema(Unwrap(registered[n].doc),
                                   compile_schema(Unwrap(registered[n].doc)))
    /\ (call.op \in Lookups /\ call.ok)
           => call.ret = <<AnswerFrom(Unwrap(registered[call.name].doc), call)>>

\* a lookup answered after a re-registration, where the replaced document
\* would have given another answer
C7_Witness ==
    /\ call.op \in Lookups
    /\ call.ok
    /\ IsSome(registered[call.name].replaced)
    /\ registered[call.name].replaced # registered[call.name].doc
    /\ call.ret # <<AnswerFrom(Unwrap(registered[call.name].replaced), call)>>

\* the step is a call of unregister
UnregisterCalled == call'.op = "unregister" /\ call' # call

\* C8: unregister(name) returns true exactly when the name was registered
\* immediately before, and then removes that entry and no other; otherwise it
\* returns false and changes nothing. A second unregister(name) in a row
\* returns false.
C8_UnregisterReturns ==
    [][UnregisterCalled =>
           LET n == call'.name
           IN  /\ call'.ok
               /\ call'.ret = <<n \in Current>>
               /\ n \notin DOMAIN registry'
               /\ \A m \in Names \ {n} :
                      /\ (m \in DOMAIN registry') = (m \in DOMAIN registry)
                      /\ m \in DOMAIN registry => registry'[m] = registry[m]
               /\ n \notin Current => registry' = registry
               /\ (call.op = "unregister" /\ call.name = n) => call'.ret = <<FALSE>>]_vars

\* unregister returned true and left the other name registered
C8_Witness ==
    /\ call.op = "unregister"
    /\ call.ret = <<TRUE>>
    /\ DOMAIN registry # {}

\* C9: from an empty registry, hasSchema(name) is true exactly when the last
\* successful register(name, _) was not followed by unregister(name), and
\* listSchemas returns exactly the set of those names, each once.
C9_HasAndListReflectRegistry ==
    /\ call.op = "hasSchema" => call.ret = <<call.name \in Current>>
    /\ call.op = "listSchemas" =>
           LET names == call.ret[1]
           IN  /\ {names[i] : i \in DOMAIN names} = Current
               /\ Len(names) = Cardinality(Current)

\* hasSchema answered false for a name that was registered and has been
\* unregistered since, while the other name is registered
C9_Witness ==
    /\ call.op = "hasSchema"
    /\ call.ret = <<FALSE>>
    /\ registered[call.name].unregistered
    /\ Current # {}

ParseError == "Failed to parse schema: {}"

\* the step is a call of register
RegisterCalled == call'.op = "register" /\ call' # call

\* C24: register(name, doc) with a document that cannot be parsed returns
\* the parse error and leaves the registry as it is: no entry is created, an
\* entry the name already has stays and the next validate or validateFast
\* of the name answers from its compiled schema; validate and validateFast
\* never return a schema-parse error.
C24_RegisterRejectsUnparsable ==
    /\ [][RegisterCalled =>
             IF from_value(call'.arg[1]) = None
             THEN /\ ~call'.ok
                  /\ call'.err = ParseError
                  /\ registry' = registry
             ELSE call'.ok]_vars
    /\ [][(call.op = "register" /\ ~call.ok
              /\ call'.op \in {"validate", "validateFast"} /\ call'.name = call.name) =>
             IF call.name \in Current
             THEN /\ call'.ok =>
                         call'.ret = <<AnswerFrom(Unwrap(registered[call.name].doc), call')>>
                  /\ ~call'.ok =>
                         /\ call'.err \notin {NotFound, ParseError}
                         /\ \/ from_value(call'.arg[1]) = None
                            \/ /\ call'.op = "validate"
                               /\ to_value(execute_compiled(
                                      Unwrap(from_value(call'.arg[1])),
                                      compile_schema(Unwrap(registered[call.name].doc))))
                                      = None
             ELSE call'.err = NotFound]_vars
    /\ [](call.op \in {"validate", "validateFast"} => call.err # ParseError)

\* register failed on a symbol for a name that has an entry, and the entry
\* is still the one of the document registered before
C24_Witness ==
    /\ call.op = "register"
    /\ ~call.ok
    /\ call.arg = <<JsSymbol>>
    /\ call.name \in DOMAIN registry
    /\ registry[call.name].schema = DocUser

\* the members of a JS object, whatever their order, and its member $schema
Fields(js) == {js.entries[i] : i \in DOMAIN js.entries}
OwnSchemaField(js) == {f \in Fields(js) : f[1] = S_schema_key}

\* C25: jsonSchema(name, target) returns the document as registered with the
\* member $schema set to the URI of the target for draft-2020-12 and
\* draft-07, and with no $schema for openapi-3.0; the stored document is not
\* altered by the call, so the result is a function of the registered
\* document and the target alone.
C25_JsonSchemaDocument ==
    /\ [][call'.op = "jsonSchema" => registry' = registry]_vars
    /\ []((call.op = "jsonSchema" /\ call.ok) =>
             LET doc == ToJs(registry[call.name].schema)
                 target == Unwrap(parse_target(call.arg[1]))
                 ret == call.ret[1]
             IN  IF doc.js # "object" THEN ret = doc
                 ELSE IF target = "OpenApi30"
                 THEN /\ ret.js = "object"
                      /\ Fields(ret) \ OwnSchemaField(ret) = Fields(doc) \ OwnSchemaField(doc)
                      /\ OwnSchemaField(ret) = {}
                 ELSE /\ ret.js = "object"
                      /\ Len(ret.entries) = Cardinality(Fields(ret))
                      /\ Fields(ret) \ OwnSchemaField(ret) = Fields(doc) \ OwnSchemaField(doc)
                      /\ OwnSchemaField(ret)
                            = {<<S_schema_key, JsString(schema_uri(target))>>})

DecodeErrors == {"Failed to deserialize value: {}", "Failed to deserialize: {}"}

\* what validate returns on success of the call: {value} or {issues}, the
\* issues not empty
IsResultValue(ret) ==
    \/ IsSome(ret.value) /\ ~IsSome(ret.issues)
    \/ ~IsSome(ret.value) /\ IsSome(ret.issues) /\ Unwrap(ret.issues) # <<>>

\* the errors of validate and validateFast are decided by the name and the
\* value alone, before the compiled schema is read
ErrorsBeforeTheWalk ==
    (call.op \in {"validate", "validateFast"}) =>
        /\ call.err = NotFound <=> call.name \notin Current
        /\ call.err \in DecodeErrors
              <=> (call.name \in Current /\ from_value(call.arg[1]) = None)

-----------------------------------------------------------------------------
(* Properties of calls in progress together, checked under SpecConcurrent *)

\* what a call that has returned returned, and what the same call returns
\* when it is the only one
RunResult(run) ==
    IF run.engine = "execute_compiled" THEN DiagResult(run.value, run.diag)
    ELSE Unwrap(run.fastb.returned)
RunAlone(run) ==
    IF run.engine = "execute_compiled" THEN execute_compiled(run.value, compiled)
    ELSE execute_compiled_bool(run.value, compiled)

\* C27: a compiled schema is not written once compile_schema has returned,
\* and every validation call has its own instruction pointer, context, path
\* stack and issue list: a step of one call changes nothing of another, and
\* under every interleaving of the steps of the calls each call returns what
\* it returns when run alone, whatever calls ran before it.
C27_RunsIndependent ==
    /\ [][phase # "compile_schema" => compiled' = compiled]_vars
    /\ [][\A r, q \in DOMAIN runs :
             (r # q /\ runs'[r] # runs[r]) => runs'[q] = runs[q]]_vars
    /\ [](\A r \in DOMAIN runs :
             RunReturned(runs[r]) => RunResult(runs[r]) = RunAlone(runs[r]))

\* two calls of execute_compiled in the middle of their walks: the first
\* has recorded an issue, the second has run operations and recorded none
C27_Witness ==
    /\ Len(runs) = 2
    /\ runs[1].engine = "execute_compiled" /\ runs[2].engine = "execute_compiled"
    /\ ~runs[1].diag.halted /\ ~runs[2].diag.halted
    /\ runs[1].diag.issues # <<>>
    /\ runs[2].diag.ip > 0 /\ runs[2].diag.issues = <<>>
    /\ runs[2].value = Alice30

ReadOnlyCalls == {"validate", "validateFast", "hasSchema", "listSchemas", "jsonSchema"}

\* C34: validate, validateFast, hasSchema, listSchemas and jsonSchema leave
\* the registry as it is, whether they succeed or return an error: the same
\* names are registered after the call, each with the same document and the
\* same compiled operations
C34_LookupsLeaveRegistry ==
    [][call'.op \in ReadOnlyCalls =>
          /\ DOMAIN registry' = DOMAIN registry
          /\ \A n \in DOMAIN registry :
                 /\ registry'[n].schema = registry[n].schema
                 /\ registry'[n].compiled = registry[n].compiled
          /\ registered' = registered]_vars

\* jsonSchema has returned a document with the $schema of draft-07 for an
\* entry whose stored document has no $schema
C34_Witness ==
    /\ call.op = "jsonSchema" /\ call.ok
    /\ call.arg = <<S_draft_07>>
    /\ registry[call.name].schema = DocUser
    /\ OwnSchemaField(call.ret[1]) # {}
    /\ registry[call.name].compiled = compile_schema(DocUser)

\* C39: in every state of the registry the compiled sequence of an entry is
\* compile_schema of the document stored in that same entry; no sequence of
\* register and unregister calls pairs the document of one registration with
\* the compiled form of another.
C39_EntryCompiledFromOwnDocument ==
    \A n \in DOMAIN registry :
        registry[n].compiled = compile_schema(registry[n].schema)

\* both names are registered with documents that compile differently, one of
\* them re-registered: the document it replaced is the document of the other
C39_Witness ==
    /\ DOMAIN registry = Names
    /\ \E n \in Names, m \in Names :
           /\ registry[n].compiled # registry[m].compiled
           /\ IsSome(registered[n].replaced)
           /\ compile_schema(Unwrap(registered[n].replaced)) # registry[n].compiled
           /\ Unwrap(registered[n].replaced) = registry[m].schema

\* what validate and validateFast return for the name and the argument in
\* the registry reg: the error message, or the result
ValidateIn(reg, name, js) ==
    LET json_value == from_value(js)
        result == execute_compiled(Unwrap(json_value), reg[name].compiled)
    IN  IF name \notin DOMAIN reg THEN <<"Err", NotFound>>
        ELSE IF ~IsSome(json_value) THEN <<"Err", "Failed to deserialize value: {}">>
        ELSE IF ~IsSome(to_value(result)) THEN <<"Err", "Failed to serialize result: {}">>
        ELSE <<"Ok", Unwrap(to_value(result))>>
ValidateFastIn(reg, name, js) ==
    LET json_value == from_value(js)
    IN  IF name \notin DOMAIN reg THEN <<"Err", NotFound>>
        ELSE IF ~IsSome(json_value) THEN <<"Err", "Failed to deserialize: {}">>
        ELSE <<"Ok", execute_compiled_bool(Unwrap(json_value), reg[name].compiled)>>

\* C40: register(name, ..) and unregister(name) affect the entry of name
\* only: for every other name hasSchema, the stored document and the results
\* of validate and validateFast are the same before and after the call (the
\* two results are computed from the compiled operations of the entry alone,
\* so they are compared where the operations are not the very same).
C40_OtherNamesUntouched ==
    [][call'.op \in {"register", "unregister"} =>
          \A m \in Names \ {call'.name} :
              /\ (m \in DOMAIN registry') = (m \in DOMAIN registry)
              /\ m \in DOMAIN registry => registry'[m].schema = registry[m].schema
              /\ \/ /\ m \in DOMAIN registry
                    /\ registry'[m].compiled = registry[m].compiled
                 \/ \A js \in RegistryValues :
                        /\ ValidateIn(registry', m, js) = ValidateIn(registry, m, js)
                        /\ ValidateFastIn(registry', m, js) = ValidateFastIn(registry, m, js)]_vars

\* a name was re-registered with another document while the other name holds
\* a document of its own
C40_Witness ==
    /\ call.op = "register"
    /\ call.ok
    /\ IsSome(registered[call.name].replaced)
    /\ registered[call.name].replaced # registered[call.name].doc
    /\ \E m \in DOMAIN registry \ {call.name} :
           /\ registry[m].schema # registry[call.name].schema
           /\ registry[m].schema # Unwrap(registered[call.name].replaced)

====
